---- MODULE Spec2Model ----
(***************************************************************************)
(* A model of ProjectXRealtimeDataManager                                  *)
(* (src/src/project_x_py/realtime_data_manager.py): the multi-timeframe    *)
(* OHLCV bar series fed by ticks, the Level-2 order book fed by depth      *)
(* frames, the trade tape, and the dispatch of events to subscribers.      *)
(*                                                                         *)
(* Instants are whole seconds counted from the start of an hour; prices    *)
(* and volumes are integers.  A polars DataFrame is a sequence of records, *)
(* one per row.  The "timestamp" and "type" columns of the book take part  *)
(* in no decision of the code and are left out of its rows; the rows of    *)
(* the tape keep their timestamp, counted in whole minutes.                *)
(***************************************************************************)
EXTENDS Integers, Sequences, FiniteSets, TLC

(***************************************************************************)
(* Bounds of the model.                                                    *)
(***************************************************************************)
\* prices range over 0..MaxPrice (0 is the price of an entry without one)
MaxPrice == 2
\* the volume up to which the current bar is let grow
MaxBarVolume == 2
\* rows a bar series keeps; stands for the 1000 of lines 1156-1157
MaxBars == 2
\* levels a book side keeps; stands for the 100 of lines 911 and 913
MaxLevels == 2
\* trades the tape keeps; stands for the 1000 of line 970
MaxTrades == 2
\* ticks handled by the transport threads of the concurrent specifications
MaxTicks == 2
\* quote_update events a subscriber is followed for
MaxQuotes == 2

None == -1
Unsupported == -2
\* a value of a frame that float() rejects, such as the string "abc"
NotANumber == -3
\* line 307: max_retries
MaxRetries == 3
\* line 416: len(jwt_token) < 50
MinTokenLength == 50
\* self.contract_id = None (line 216)
NoContract == "none"

Prices == 0..MaxPrice
TickPrices == {1, 2}
\* 0 is the volume of a tick made from a quote
TickVolumes == {0, 1}
TradeVolumes == {1, 2}
\* the instants at which ticks arrive: the second before the second
\* 5-second bucket of the hour, that bucket's start, and the start of the
\* next minute
TickTimes == {4, 5, 60}
Ticks == [timestamp : TickTimes, price : TickPrices, volume : TickVolumes]

OwnContract == "CON.F.US.MGC"
OtherContract == "CON.F.US.MNQ"

Channels == {"data_update", "new_bar", "market_depth", "quote_update", "market_trade"}

VARIABLES
    timeframes,      \* self.timeframes: the configured timeframe names
    data,            \* self.data: timeframe name -> rows of its bar series
    is_running,      \* self.is_running
    data_lock,       \* self.data_lock: "free" or the thread that holds it
    contract_id,     \* self.contract_id
    orderbook_bids,  \* self.orderbook_bids: rows [price, volume], best (highest) first
    orderbook_asks,  \* self.orderbook_asks: rows [price, volume], best (lowest) first
    recent_trades,   \* self.recent_trades: rows [price, volume, side], newest last
    orderbook_lock,  \* self.orderbook_lock: "free" or the thread that holds it
    callbacks,       \* self.callbacks: channel -> subscribers in registration order
    received,        \* per subscriber, the events it was invoked with, in order
    main_loop,       \* self.main_loop: "none", "loop" or "closed"
    seed,            \* history: the rows self.data held when the feed started
    tick_log,        \* history: the ticks handed to _process_tick_data, in order
    thread_pc,       \* per transport thread: where it stands in _process_tick_data
    thread_tick,     \* per transport thread: the tick it is processing
    reader_pc,       \* get_mtf_data: index of the next timeframe to fetch, 0 when idle
    mtf_data,        \* get_mtf_data: the dict being built
    history,         \* history: the value of self.data after each commit
    commit_log,      \* history: the data_update payloads in commit order
    last_quote_state, \* self._last_quote_state: the bid and ask received last
    frame_log,       \* history: the quote frame handled last and its arrival time
    client,          \* self.client: "unset" until start_realtime_feed assigns it
    realtime_client, \* self.realtime_client
    transport,       \* the ProjectXRealtimeClient made last: what was done to it
    returned         \* history: the lifecycle call made last, its inputs and result

barVars == <<timeframes, data, is_running, data_lock>>
bookVars == <<contract_id, orderbook_bids, orderbook_asks, recent_trades, orderbook_lock>>
cbVars == <<callbacks, received, main_loop>>
histVars == <<seed, tick_log, history, commit_log, frame_log, returned>>
threadVars == <<thread_pc, thread_tick, reader_pc, mtf_data>>
quoteVars == <<last_quote_state>>
lifeVars == <<client, realtime_client, transport>>
vars == <<timeframes, data, is_running, data_lock, contract_id, orderbook_bids, orderbook_asks,
          recent_trades, orderbook_lock, callbacks, received, main_loop, seed, tick_log, thread_pc, thread_tick,
          reader_pc, mtf_data, history, commit_log, last_quote_state, frame_log,
          client, realtime_client, transport, returned>>

(***************************************************************************)
(* Helpers on sequences.                                                   *)
(***************************************************************************)
Max2(a, b) == IF a >= b THEN a ELSE b
Min2(a, b) == IF a <= b THEN a ELSE b
Last(s) == s[Len(s)]
\* DataFrame.tail(n)
Tail_n(s, n) == IF Len(s) <= n THEN s ELSE SubSeq(s, Len(s) - n + 1, Len(s))
\* DataFrame.head(n)
Head_n(s, n) == IF Len(s) <= n THEN s ELSE SubSeq(s, 1, n)

(***************************************************************************)
(* The timeframe table of __init__.                                        *)
(***************************************************************************)
TIMEFRAMES ==
    ("1sec" :> [interval |-> 1, unit |-> 1]) @@
    ("5sec" :> [interval |-> 5, unit |-> 1]) @@
    ("10sec" :> [interval |-> 10, unit |-> 1]) @@
    ("15sec" :> [interval |-> 15, unit |-> 1]) @@
    ("30sec" :> [interval |-> 30, unit |-> 1]) @@
    ("1min" :> [interval |-> 1, unit |-> 2]) @@
    ("5min" :> [interval |-> 5, unit |-> 2]) @@
    ("15min" :> [interval |-> 15, unit |-> 2]) @@
    ("30min" :> [interval |-> 30, unit |-> 2]) @@
    ("1hr" :> [interval |-> 60, unit |-> 3]) @@
    ("4hr" :> [interval |-> 240, unit |-> 3]) @@
    ("1day" :> [interval |-> 1, unit |-> 4]) @@
    ("1week" :> [interval |-> 1, unit |-> 5]) @@
    ("1month" :> [interval |-> 1, unit |-> 6])

(***************************************************************************)
(* _calculate_bar_time: the start of the bucket of `timestamp`.  The       *)
(* second and minute fields are replaced by their floor to the interval;   *)
(* any other unit raises ValueError (Unsupported).                         *)
(***************************************************************************)
SecondOf(timestamp) == timestamp % 60
MinuteOf(timestamp) == (timestamp \div 60) % 60

_calculate_bar_time(timestamp, interval, unit) ==
    IF unit = 1
    THEN LET rounded_seconds == (SecondOf(timestamp) \div interval) * interval
         IN  timestamp - SecondOf(timestamp) + rounded_seconds
    ELSE IF unit = 2
    THEN LET minutes == (MinuteOf(timestamp) \div interval) * interval
         IN  timestamp - SecondOf(timestamp) - MinuteOf(timestamp) * 60 + minutes * 60
    ELSE Unsupported

BarTimeOf(tf_key, timestamp) ==
    _calculate_bar_time(timestamp, TIMEFRAMES[tf_key].interval, TIMEFRAMES[tf_key].unit)

(***************************************************************************)
(* _update_timeframe_data, as a function of the series: the rows after the *)
(* tick and whether new_bar was triggered.                                 *)
(***************************************************************************)
\* faulty variant: the opening tick's volume is dropped
NewBarVolume_Unit(volume) == 1

\* lines 1059 and 1079: max(volume, 1) if volume > 0 else 1
NewBarVolume(volume) == IF volume > 0 THEN Max2(volume, 1) ELSE 1

\* lines 1060-1069 and 1080-1089
NewBar(bar_time, price, volume) ==
    [timestamp |-> bar_time, open |-> price, high |-> price, low |-> price,
     close |-> price, volume |-> NewBarVolume(volume)]

\* faulty variant: low takes the tick's price instead of the minimum
UpdatedBar_LowIsPrice(row, price, volume) ==
    [row EXCEPT !.high = Max2(row.high, price),
                !.low = price,
                !.close = price,
                !.volume = Max2(row.volume + volume, 1)]

\* lines 1109-1131: the new values of the row whose timestamp is bar_time
UpdatedBar(row, price, volume) ==
    [row EXCEPT !.high = Max2(row.high, price),
                !.low = Min2(row.low, price),
                !.close = price,
                !.volume = Max2(row.volume + volume, 1)]

\* lines 1106-1153: with_columns(when(timestamp == bar_time).then(new).otherwise(old));
\* the new values are read from the single row the mask selects
UpdateExisting(current_data, bar_time, price, volume) ==
    LET masked == {i \in 1..Len(current_data) : current_data[i].timestamp = bar_time}
        row == current_data[CHOOSE i \in masked : TRUE]
    IN  IF Cardinality(masked) # 1
        THEN current_data   \* .item() raises; the except clause logs it
        ELSE [i \in 1..Len(current_data) |->
                 IF current_data[i].timestamp = bar_time
                 THEN [current_data[i] EXCEPT
                          !.high = UpdatedBar(row, price, volume).high,
                          !.low = UpdatedBar(row, price, volume).low,
                          !.close = UpdatedBar(row, price, volume).close,
                          !.volume = UpdatedBar(row, price, volume).volume]
                 ELSE current_data[i]]

\* faulty variant: a tick of the current bucket opens a bar too
IsNewBucket_OrSame(bar_time, last_bar_time) == bar_time >= last_bar_time

\* line 1077
IsNewBucket(bar_time, last_bar_time) == bar_time > last_bar_time

\* lines 1155-1157
TrimBars(rows) == IF Len(rows) > MaxBars THEN Tail_n(rows, MaxBars) ELSE rows

_update_timeframe_data(current_data, tf_key, timestamp, price, volume) ==
    LET bar_time == BarTimeOf(tf_key, timestamp)
    IN  IF bar_time = Unsupported
        THEN [rows |-> current_data, new_bar |-> FALSE, bar_time |-> bar_time]
        ELSE IF Len(current_data) = 0
        THEN [rows |-> TrimBars(<<NewBar(bar_time, price, volume)>>),
              new_bar |-> FALSE, bar_time |-> bar_time]
        ELSE IF IsNewBucket(bar_time, Last(current_data).timestamp)
        THEN [rows |-> TrimBars(Append(current_data, NewBar(bar_time, price, volume))),
              new_bar |-> TRUE, bar_time |-> bar_time]
        ELSE IF bar_time = Last(current_data).timestamp
        THEN [rows |-> TrimBars(UpdateExisting(current_data, bar_time, price, volume)),
              new_bar |-> FALSE, bar_time |-> bar_time]
        ELSE [rows |-> TrimBars(current_data), new_bar |-> FALSE, bar_time |-> bar_time]

(***************************************************************************)
(* _trigger_callbacks: the callbacks of the channel are taken in           *)
(* registration order, each inside its own try block.  A plain callable is *)
(* called; a coroutine function is handed to an event loop when one is     *)
(* available and skipped with a warning when none is.                      *)
(***************************************************************************)
\* the callbacks that raise when invoked, and the coroutine functions
Raisers == {"s3"}
Coroutines == {"a1"}

\* lines 2476-2488: a coroutine callback is scheduled on self.main_loop when
\* that is set and not closed; the calling transport thread runs no loop of
\* its own, so without it get_running_loop raises and the callback is skipped
LoopAvailable == main_loop = "loop"

\* faulty variant: an exception ends the loop over the callbacks
AfterRaise_Abort(rest) == <<>>

\* lines 2491-2492: the except clause logs and the loop goes on
AfterRaise(rest) == rest

\* nth is the position of the invocation among those of this event
RECURSIVE Deliver(_, _, _, _)
Deliver(rcv, subs, event, nth) ==
    IF subs = <<>> THEN rcv
    ELSE LET callback == Head(subs)
             called == [rcv EXCEPT ![callback] =
                           Append(@, [channel |-> event.channel,
                                      payload |-> event.payload, nth |-> nth])]
         IN  IF callback \in Coroutines /\ ~LoopAvailable
             THEN Deliver(rcv, Tail(subs), event, nth)
             ELSE IF callback \in Raisers
             THEN Deliver(called, AfterRaise(Tail(subs)), event, nth + 1)
             ELSE Deliver(called, Tail(subs), event, nth + 1)

_trigger_callbacks(rcv, event_type, payload) ==
    Deliver(rcv, callbacks[event_type], [channel |-> event_type, payload |-> payload], 1)

(***************************************************************************)
(* _process_tick_data: nothing unless the feed is running; otherwise every *)
(* configured timeframe present in self.data is updated under data_lock    *)
(* (new_bar is triggered inside the loop, per timeframe), and data_update  *)
(* is triggered after the lock is released.                                *)
(***************************************************************************)
RECURSIVE FanOut(_, _, _, _)
FanOut(tfs, d, rcv, tick) ==
    IF tfs = <<>> THEN [data |-> d, received |-> rcv]
    ELSE LET tf_key == Head(tfs) IN
         IF tf_key \notin DOMAIN d
         THEN FanOut(Tail(tfs), d, rcv, tick)     \* lines 1051-1052
         ELSE LET r == _update_timeframe_data(d[tf_key], tf_key, tick.timestamp,
                                              tick.price, tick.volume)
              IN  FanOut(Tail(tfs),
                         [d EXCEPT ![tf_key] = r.rows],
                         IF r.new_bar
                         THEN _trigger_callbacks(rcv, "new_bar",
                                  [timeframe |-> tf_key, bar_time |-> r.bar_time])
                         ELSE rcv,
                         tick)

_process_tick_data(tick) ==
    IF ~is_running
    THEN UNCHANGED <<barVars, cbVars>>
    ELSE LET r == FanOut(timeframes, data, received, tick) IN
         /\ data' = r.data
         /\ received' = _trigger_callbacks(r.received, "data_update",
                            [timestamp |-> tick.timestamp, price |-> tick.price,
                             volume |-> tick.volume])
         /\ UNCHANGED <<timeframes, is_running, data_lock, callbacks, main_loop>>

(***************************************************************************)
(* _process_tick_data on a transport thread that shares the manager with   *)
(* other threads.  data_lock is held for the fan-out only (lines           *)
(* 1209-1212), so that part is one step; the data_update dispatch (lines   *)
(* 1214-1218) runs after the lock is released and is a second step of the  *)
(* same thread.  _trigger_callbacks takes no lock.                         *)
(***************************************************************************)
TickPayload(tick) ==
    [timestamp |-> tick.timestamp, price |-> tick.price, volume |-> tick.volume]

TickCommit(t, tick) ==
    /\ thread_pc[t] = "idle"
    /\ is_running
    /\ LET r == FanOut(timeframes, data, received, tick) IN
         /\ data' = r.data
         /\ received' = r.received
    /\ thread_pc' = [thread_pc EXCEPT ![t] = "dispatch"]
    /\ thread_tick' = [thread_tick EXCEPT ![t] = tick]
    /\ UNCHANGED <<timeframes, is_running, data_lock, callbacks, main_loop, reader_pc, mtf_data>>

TickDispatch(t) ==
    /\ thread_pc[t] = "dispatch"
    /\ received' = _trigger_callbacks(received, "data_update", TickPayload(thread_tick[t]))
    /\ thread_pc' = [thread_pc EXCEPT ![t] = "idle"]
    /\ thread_tick' = [thread_tick EXCEPT ![t] = None]
    /\ UNCHANGED <<barVars, callbacks, main_loop, reader_pc, mtf_data>>

(***************************************************************************)
(* get_mtf_data on a reader thread: one get_data call per timeframe, each  *)
(* taking and releasing data_lock on its own (lines 1239-1247), so each    *)
(* call is one step.  Timeframes whose frame is empty are left out of the  *)
(* dict (line 1273).                                                       *)
(***************************************************************************)
get_data(timeframe) == data[timeframe]

get_mtf_data_begin ==
    /\ reader_pc = 0
    /\ reader_pc' = 1
    /\ mtf_data' = [k \in {} |-> <<>>]
    /\ UNCHANGED <<barVars, cbVars, thread_pc, thread_tick>>

get_mtf_data_fetch ==
    /\ reader_pc \in 1..Len(timeframes)
    /\ LET tf == timeframes[reader_pc]
           rows == get_data(tf)
       IN  mtf_data' = IF Len(rows) > 0 THEN (tf :> rows) @@ mtf_data ELSE mtf_data
    /\ reader_pc' = reader_pc + 1
    /\ UNCHANGED <<barVars, cbVars, thread_pc, thread_tick>>

get_mtf_data_return ==
    /\ reader_pc = Len(timeframes) + 1
    /\ reader_pc' = 0
    /\ UNCHANGED <<barVars, cbVars, thread_pc, thread_tick, mtf_data>>

(***************************************************************************)
(* get_best_bid_ask.  The mid is kept doubled (best_bid + best_ask) so     *)
(* that it stays an integer; `x and y` of Python holds of a price that is  *)
(* neither None nor 0.                                                     *)
(***************************************************************************)
Truthy(x) == x # None /\ x # 0

\* faulty variant: only a missing side makes the mid unknown
BothKnown_NotNone(best_bid, best_ask) == best_bid # None /\ best_ask # None

\* lines 1468-1471: best_bid and best_ask
BothKnown(best_bid, best_ask) == Truthy(best_bid) /\ Truthy(best_ask)

get_best_bid_ask(bids, asks) ==
    LET best_bid == IF Len(bids) > 0 THEN bids[1].price ELSE None
        best_ask == IF Len(asks) > 0 THEN asks[1].price ELSE None
    IN  [bid |-> best_bid,
         ask |-> best_ask,
         mid2 |-> IF BothKnown(best_bid, best_ask) THEN best_bid + best_ask ELSE None]

(***************************************************************************)
(* _update_orderbook_side: the rows of one side after a batch of updates.  *)
(***************************************************************************)
\* the rows of set S ordered by price
RECURSIVE SortByPrice(_, _)
SortByPrice(S, descending) ==
    IF S = {} THEN <<>>
    ELSE LET first == CHOOSE r \in S :
                         \A q \in S : IF descending THEN q.price <= r.price
                                                    ELSE q.price >= r.price
         IN  <<first>> \o SortByPrice(S \ {first}, descending)

\* faulty variant: the first row of a price wins
LatestRow_First(combined, price) ==
    combined[CHOOSE i \in 1..Len(combined) :
                /\ combined[i].price = price
                /\ \A j \in 1..Len(combined) : combined[j].price = price => j >= i]

\* lines 890-896: group_by("price").agg(last)
LatestRow(combined, price) ==
    combined[CHOOSE i \in 1..Len(combined) :
                /\ combined[i].price = price
                /\ \A j \in 1..Len(combined) : combined[j].price = price => j <= i]

\* faulty variant: a level of volume 0 stays in the book
KeepLevel_AnyVolume(row) == row.volume >= 0

\* line 899: filter(volume > 0)
KeepLevel(row) == row.volume > 0

\* faulty variant: the side is not cut to its best levels
CapLevels_None(rows) == rows

\* lines 909-913: head(100)
CapLevels(rows) == Head_n(rows, MaxLevels)

_update_orderbook_side(current_df, updates, side) ==
    LET combined_df == current_df \o updates
        prices == {combined_df[i].price : i \in 1..Len(combined_df)}
        latest_df == {LatestRow(combined_df, p) : p \in prices}
        kept == {r \in latest_df : KeepLevel(r)}
    IN  CapLevels(SortByPrice(kept, side = "bid"))

(***************************************************************************)
(* _update_trade_flow: the tape after the trades of a frame, each tagged   *)
(* from the best prices of the book as it stands after the frame's level   *)
(* updates.                                                                *)
(***************************************************************************)
\* lines 940-948
TradeSide(price, best_bid, best_ask) ==
    IF BothKnown(best_bid, best_ask)
    THEN IF price >= best_ask THEN "buy"
         ELSE IF price <= best_bid THEN "sell"
         ELSE "unknown"
    ELSE "unknown"

\* faulty variant: the oldest trades are kept
TrimTrades_Oldest(rows) == Head_n(rows, MaxTrades)

\* line 970: tail(1000)
TrimTrades(rows) == Tail_n(rows, MaxTrades)

_update_trade_flow(trades, trade_updates, bids, asks) ==
    LET best_prices == get_best_bid_ask(bids, asks)
        enhanced_trades ==
            [i \in 1..Len(trade_updates) |->
                [price |-> trade_updates[i].price,
                 volume |-> trade_updates[i].volume,
                 timestamp |-> trade_updates[i].timestamp,
                 side |-> TradeSide(trade_updates[i].price,
                                    best_prices.bid, best_prices.ask)]]
    IN  TrimTrades(trades \o enhanced_trades)

(***************************************************************************)
(* _on_market_depth.  The entries of the frame are first sorted into       *)
(* bid_updates, ask_updates and trade_updates (types 9 and 10 by the mid   *)
(* of the book as it stands before the frame), then the bid side, the ask  *)
(* side and the tape are updated in that order.                            *)
(***************************************************************************)
Level(entry) == [price |-> entry.price, volume |-> entry.volume]

\* lines 770-774
TradeUpdate(entry) ==
    [price |-> entry.price, volume |-> entry.volume, timestamp |-> entry.timestamp]

\* lines 785-826: the sides a type-9 or type-10 entry is applied to
ModifiedSides(entry, mid2) ==
    IF Truthy(mid2) /\ entry.price # 0
    THEN IF 2 * entry.price <= mid2 THEN {"bid"} ELSE {"ask"}
    ELSE {"bid", "ask"}

\* lines 750-826: whether the entry goes to bid_updates / ask_updates
IsBidUpdate(entry, mid2) ==
    \/ entry.type = 2
    \/ entry.type \in {9, 10} /\ "bid" \in ModifiedSides(entry, mid2)

IsAskUpdate(entry, mid2) ==
    \/ entry.type = 1
    \/ entry.type \in {9, 10} /\ "ask" \in ModifiedSides(entry, mid2)

\* lines 768-776
IsTradeUpdate(entry) == entry.type = 5 /\ entry.volume > 0

RECURSIVE Pick(_, _, _)
Pick(entries, mid2, kind) ==
    IF entries = <<>> THEN <<>>
    ELSE LET e == Head(entries)
             take == CASE kind = "bid" -> IsBidUpdate(e, mid2)
                       [] kind = "ask" -> IsAskUpdate(e, mid2)
                       [] OTHER -> IsTradeUpdate(e)
             row == IF kind = "trade" THEN TradeUpdate(e) ELSE Level(e)
         IN  (IF take THEN <<row>> ELSE <<>>) \o Pick(Tail(entries), mid2, kind)

\* lines 700-841: the book and the tape after the frame's entries
DepthResult(depth_data, bids, asks, trades) ==
    LET mid2 == get_best_bid_ask(bids, asks).mid2
        bid_updates == Pick(depth_data, mid2, "bid")
        ask_updates == Pick(depth_data, mid2, "ask")
        trade_updates == Pick(depth_data, mid2, "trade")
        new_bids == IF bid_updates # <<>>
                    THEN _update_orderbook_side(bids, bid_updates, "bid") ELSE bids
        new_asks == IF ask_updates # <<>>
                    THEN _update_orderbook_side(asks, ask_updates, "ask") ELSE asks
        new_trades == IF trade_updates # <<>>
                      THEN _update_trade_flow(trades, trade_updates, new_bids, new_asks)
                      ELSE trades
    IN  [bids |-> new_bids, asks |-> new_asks, trades |-> new_trades]

_on_market_depth(frame) ==
    IF frame.contract_id # contract_id
    THEN UNCHANGED <<bookVars, cbVars>>
    ELSE LET r == DepthResult(frame.data, orderbook_bids, orderbook_asks, recent_trades) IN
         /\ orderbook_bids' = r.bids
         /\ orderbook_asks' = r.asks
         /\ recent_trades' = r.trades
         /\ received' = _trigger_callbacks(received, "market_depth", frame)
         /\ UNCHANGED <<contract_id, orderbook_lock, callbacks, main_loop>>

(***************************************************************************)
(* _on_quote_update.  quote_data is a record of the keys the handler       *)
(* reads, None for a key the frame does not carry.  `a or b` of Python     *)
(* yields b when a is None or 0.  The mid (bid + ask) / 2 is exact on the  *)
(* even prices the quotes of the model carry.  The tick is stamped with    *)
(* the clock reading `now` (line 590).                                     *)
(***************************************************************************)
PyOr(a, b) == IF Truthy(a) THEN a ELSE b

\* faulty variant: the tick of a trade update carries the trade size
QuoteTickVolume_TradeSize(quote_data, is_trade_update) ==
    IF is_trade_update THEN quote_data.volume ELSE 0

\* line 597: "volume": 0
QuoteTickVolume(quote_data, is_trade_update) == 0

\* lines 546-564: the quote state after the frame
QuoteStateAfter(state, quote_data) ==
    LET current_bid == PyOr(quote_data.bestBid, quote_data.bid)
        current_ask == PyOr(quote_data.bestAsk, quote_data.ask)
    IN  [bid |-> IF current_bid # None THEN current_bid ELSE state.bid,
         ask |-> IF current_ask # None THEN current_ask ELSE state.ask]

\* lines 566-585: the price of the tick, None when there is none
QuoteTickPrice(state, quote_data) ==
    LET last_price == PyOr(PyOr(quote_data.lastPrice, quote_data.last), quote_data.price)
        is_trade_update == last_price # None /\ quote_data.volume # None
    IN  IF is_trade_update THEN last_price
        ELSE IF state.bid # None /\ state.ask # None THEN (state.bid + state.ask) \div 2
        ELSE IF state.bid # None THEN state.bid
        ELSE IF state.ask # None THEN state.ask
        ELSE None

IsTradeQuote(quote_data) ==
    /\ PyOr(PyOr(quote_data.lastPrice, quote_data.last), quote_data.price) # None
    /\ quote_data.volume # None

\* faulty variant: one known side is enough for a quote_update
EmitsQuoteUpdate_EitherSide(price, state) ==
    price # None /\ (state.bid # None \/ state.ask # None)

\* lines 587 and 604: inside `if price is not None`, with both sides known
EmitsQuoteUpdate(price, state) ==
    price # None /\ state.bid # None /\ state.ask # None

_on_quote_update(frame, now) ==
    IF frame.contract_id # contract_id
    THEN UNCHANGED <<barVars, cbVars, quoteVars>>
    ELSE LET state == QuoteStateAfter(last_quote_state, frame.data)
             price == QuoteTickPrice(state, frame.data)
             tick == [timestamp |-> now, price |-> price,
                      volume |-> QuoteTickVolume(frame.data, IsTradeQuote(frame.data))]
             fanned == FanOut(timeframes, data, received, tick)
             ticked == IF price = None \/ ~is_running
                       THEN [data |-> data, received |-> received]
                       ELSE [data |-> fanned.data,
                             received |-> _trigger_callbacks(fanned.received, "data_update",
                                              [timestamp |-> tick.timestamp,
                                               price |-> tick.price,
                                               volume |-> tick.volume])]
         IN  /\ last_quote_state' = state
             /\ data' = ticked.data
             /\ received' = IF EmitsQuoteUpdate(price, state)
                            THEN _trigger_callbacks(ticked.received, "quote_update",
                                     [contract_id |-> frame.contract_id,
                                      data |-> [bid |-> state.bid, ask |-> state.ask]])
                            ELSE ticked.received
             /\ UNCHANGED <<timeframes, is_running, data_lock, callbacks, main_loop>>

(***************************************************************************)
(* _on_market_trade, lines 1021-1029: the frame is handed to the           *)
(* market_trade subscribers as it came.                                    *)
(***************************************************************************)
_on_market_trade(frame) ==
    /\ received' = _trigger_callbacks(received, "market_trade", frame)
    /\ UNCHANGED <<callbacks, main_loop>>

(***************************************************************************)
(* The lifecycle calls, as functions of the engine's fields: each yields   *)
(* the fields after the call (e) and the value the call returns.  The      *)
(* historical source and the transport are not part of this file; their    *)
(* answers are inputs: per timeframe the outcome of each fetch attempt     *)
(* ("data", "empty" or "raise"), the instrument found (NoContract when     *)
(* get_instrument returns nothing), the outcome of connect and of          *)
(* subscribe_market_data ("ok", "false" or "raise"), and whether a failed  *)
(* connect leaves a hub connected.                                         *)
(***************************************************************************)
\* the transport as a successful start_realtime_feed leaves it; disconnects
\* counts the disconnect() calls made on the client
Streaming ==
    [connected |-> TRUE, handlers |-> TRUE, subscribed |-> TRUE, disconnects |-> 0]

Engine ==
    [data |-> data, contract_id |-> contract_id, is_running |-> is_running,
     client |-> client, realtime_client |-> realtime_client, transport |-> transport]

\* lines 309-351: the attempts stop at the first non-empty answer
FetchSucceeds(attempts) == \E i \in 1..MaxRetries : attempts[i] = "data"

\* the rows the historical source answers with
HistoricalRows ==
    <<[timestamp |-> 0, open |-> 1, high |-> 2, low |-> 1, close |-> 2, volume |-> 1]>>

\* lines 293-382: the series stored until the first timeframe that fails
RECURSIVE Warmup(_, _, _)
Warmup(tfs, d, fetches) ==
    IF tfs = <<>> THEN [data |-> d, ok |-> TRUE]
    ELSE IF FetchSucceeds(fetches[Head(tfs)])
    THEN Warmup(Tail(tfs),
                [tf \in DOMAIN d \cup {Head(tfs)} |->
                    IF tf = Head(tfs) THEN HistoricalRows ELSE d[tf]],
                fetches)
    ELSE [data |-> d, ok |-> FALSE]

initialize(e, fetches, instrument) ==
    LET w == Warmup(timeframes, e.data, fetches)
        found == w.ok /\ instrument # NoContract
    IN  [e |-> [e EXCEPT !.data = w.data,
                         !.contract_id = IF found THEN instrument ELSE e.contract_id],
         value |-> found]

\* faulty variant: the separators of the token are not counted
ValidToken_AnyDots(jwt_token) ==
    jwt_token.length > 0 /\ jwt_token.length >= MinTokenLength

\* lines 416-427: not empty, at least 50 characters, exactly two '.'
ValidToken(jwt_token) ==
    /\ jwt_token.length > 0
    /\ jwt_token.length >= MinTokenLength
    /\ jwt_token.dots = 2

start_realtime_feed(e, jwt_token, connect, partial, subscribe) ==
    IF e.contract_id = NoContract \/ ~ValidToken(jwt_token)
    THEN [e |-> e, value |-> FALSE]
    ELSE LET made == [e EXCEPT !.client = "client", !.realtime_client = "client"] IN
         IF connect # "ok"
         THEN [e |-> [made EXCEPT !.transport = [connected |-> partial, handlers |-> TRUE,
                                                  subscribed |-> FALSE,
                                                  disconnects |-> 0]],
               value |-> FALSE]
         ELSE IF subscribe # "ok"
         THEN [e |-> [made EXCEPT !.transport = [connected |-> TRUE, handlers |-> TRUE,
                                                  subscribed |-> FALSE,
                                                  disconnects |-> 0]],
               value |-> FALSE]
         ELSE [e |-> [made EXCEPT !.transport = Streaming, !.is_running = TRUE],
               value |-> TRUE]

\* lines 511-524; with self.client never assigned the test at line 517 raises
\* and the except clause logs it
stop_realtime_feed(e) ==
    IF e.client = "client"
    THEN [e EXCEPT !.is_running = FALSE, !.client = "none",
                   !.transport = [connected |-> FALSE, handlers |-> TRUE,
                                  subscribed |-> FALSE,
                                  disconnects |-> e.transport.disconnects + 1]]
    ELSE [e EXCEPT !.is_running = FALSE]

\* faulty variant: the feed is started whether or not it was running
force_data_refresh_AlwaysStart(e, fetches, instrument, jwt_token, connect, partial, subscribe) ==
    LET stopped == IF e.is_running THEN stop_realtime_feed(e) ELSE e
        cleared == [stopped EXCEPT !.data = [k \in {} |-> <<>>]]
        warmed == initialize(cleared, fetches, instrument)
    IN  IF warmed.value
        THEN start_realtime_feed(warmed.e, jwt_token, connect, partial, subscribe)
        ELSE warmed

\* faulty variant: the feed is not started again
force_data_refresh_NoRestart(e, fetches, instrument, jwt_token, connect, partial, subscribe) ==
    LET stopped == IF e.is_running THEN stop_realtime_feed(e) ELSE e
    IN  initialize([stopped EXCEPT !.data = [k \in {} |-> <<>>]], fetches, instrument)

\* lines 2631-2669
force_data_refresh(e, fetches, instrument, jwt_token, connect, partial, subscribe) ==
    LET was_running == e.is_running
        stopped == IF was_running THEN stop_realtime_feed(e) ELSE e
        cleared == [stopped EXCEPT !.data = [k \in {} |-> <<>>]]
        warmed == initialize(cleared, fetches, instrument)
    IN  IF was_running /\ warmed.value
        THEN start_realtime_feed(warmed.e, jwt_token, connect, partial, subscribe)
        ELSE warmed

\* lines 2578-2589: the staleness budget of a timeframe, in seconds
MaxAge(tf_key) ==
    IF TIMEFRAMES[tf_key].unit = 1
    THEN TIMEFRAMES[tf_key].interval * 4
    ELSE TIMEFRAMES[tf_key].interval * 72 + 180

\* lines 2545-2602.  The bars carry time-zone-aware timestamps (lines
\* 360-366, 590, 1176-1177); subtracting one from a clock reading raises
\* TypeError unless the reading is aware too, and the except clause turns
\* that into False.
HealthCheck(now, clock_is_aware) ==
    IF ~is_running THEN FALSE
    ELSE \A tf_key \in DOMAIN data :
            /\ Len(data[tf_key]) > 0
            /\ clock_is_aware
            /\ ~(now - Last(data[tf_key]).timestamp > MaxAge(tf_key))

\* line 2559: current_time = datetime.now(), a naive reading
health_check(now) == HealthCheck(now, FALSE)

(***************************************************************************)
(* get_cumulative_delta, as a function of the tape, of the clock reading   *)
(* datetime.now() and of the window, both in minutes.                      *)
(***************************************************************************)
\* faulty variant: a trade of unknown side counts as a buy
DeltaOf_UnknownIsBuy(trade) ==
    IF trade.side = "sell" THEN 0 - trade.volume ELSE trade.volume

\* lines 2072-2077: what one trade adds to cumulative_delta
DeltaOf(trade) ==
    IF trade.side = "buy" THEN trade.volume
    ELSE IF trade.side = "sell" THEN 0 - trade.volume
    ELSE 0

\* line 2060: sort("timestamp"); rows of one timestamp keep their order
RECURSIVE SortByTimestamp(_)
SortByTimestamp(rows) ==
    IF rows = <<>> THEN <<>>
    ELSE LET first == CHOOSE i \in 1..Len(rows) :
                         /\ \A j \in 1..Len(rows) : rows[i].timestamp <= rows[j].timestamp
                         /\ \A j \in 1..(i - 1) : rows[j].timestamp # rows[i].timestamp
         IN  <<rows[first]>>
             \o SortByTimestamp([k \in 1..(Len(rows) - 1) |->
                                    IF k < first THEN rows[k] ELSE rows[k + 1]])

\* lines 2063-2086: the running delta after each trade
RECURSIVE DeltaSeries(_, _)
DeltaSeries(rows, cumulative_delta) ==
    IF rows = <<>> THEN <<>>
    ELSE <<cumulative_delta + DeltaOf(Head(rows))>>
         \o DeltaSeries(Tail(rows), cumulative_delta + DeltaOf(Head(rows)))

get_cumulative_delta(trades, now, time_window_minutes) ==
    IF Len(trades) = 0
    THEN [cumulative_delta |-> 0, time_series |-> <<>>]
    ELSE LET cutoff_time == now - time_window_minutes
             in_window == SelectSeq(trades, LAMBDA t : t.timestamp >= cutoff_time)
             time_series == DeltaSeries(SortByTimestamp(in_window), 0)
         IN  IF Len(in_window) = 0
             THEN [cumulative_delta |-> 0, time_series |-> <<>>]
             ELSE [cumulative_delta |-> Last(time_series), time_series |-> time_series]

(***************************************************************************)
(* The transport threads and the reader of the concurrent specification;   *)
(* the other specifications keep them at rest.                             *)
(***************************************************************************)
FeedStarted ==
    /\ client = "client"
    /\ realtime_client = "client"
    /\ transport = Streaming
    /\ returned = <<>>

Threads == {"t1", "t2"}
EmptyDict == [k \in {} |-> <<>>]

\* no second transport thread and no reader at work
OneThreadIdle ==
    /\ thread_pc = [t \in Threads |-> "idle"]
    /\ thread_tick = [t \in Threads |-> None]
    /\ reader_pc = 0
    /\ mtf_data = EmptyDict
    /\ history = <<>>
    /\ commit_log = <<>>
    /\ last_quote_state = [bid |-> None, ask |-> None]
    /\ frame_log = <<>>
    /\ FeedStarted

(***************************************************************************)
(* SpecBars: tick ingestion into seeded series.  The feed is running, the  *)
(* series of both timeframes hold historical rows in ascending order or    *)
(* hold an empty frame (what cleanup_old_data(0) leaves, lines 2614-2621;  *)
(* lines 1057-1072 handle that case), one subscriber listens on new_bar,   *)
(* and ticks of any time, price and volume arrive, late and out-of-order   *)
(* ones included.                                                          *)
(***************************************************************************)
SeedBar(t) == [timestamp |-> t, open |-> 1, high |-> 2, low |-> 1, close |-> 2, volume |-> 1]
SeedSeries == {<<>>, <<SeedBar(0)>>}
BarTimeframes == <<"5sec", "1min">>
Subscribers == {"s1", "s2", "s3", "a1"}

RangeOf(s) == {s[i] : i \in 1..Len(s)}

InitBars ==
    /\ timeframes = BarTimeframes
    /\ data \in [RangeOf(BarTimeframes) -> SeedSeries]
    /\ is_running = TRUE
    /\ contract_id = OwnContract
    /\ orderbook_bids = <<>>
    /\ orderbook_asks = <<>>
    /\ recent_trades = <<>>
    /\ orderbook_lock = "free"
    /\ data_lock = "free"
    /\ callbacks = [c \in Channels |-> IF c = "new_bar" THEN <<"s1">> ELSE <<>>]
    /\ received = [s \in Subscribers |-> <<>>]
    /\ main_loop = "none"
    /\ seed = data
    /\ tick_log = <<>>
    /\ OneThreadIdle

BarVolumesBounded ==
    \A tf \in DOMAIN data : \A i \in 1..Len(data[tf]) : data[tf][i].volume <= MaxBarVolume

IngestTick ==
    \E tick \in Ticks :
        /\ _process_tick_data(tick)
        /\ BarVolumesBounded'
        /\ UNCHANGED <<bookVars, histVars, threadVars, quoteVars, lifeVars>>

NextBars == IngestTick

SpecBars == InitBars /\ [][NextBars]_vars

(***************************************************************************)
(* SpecTrades: trade ticks (volume >= 1) ingested in timestamp order, each *)
(* recorded in tick_log.                                                   *)
(***************************************************************************)
TradeTicks == [timestamp : TickTimes, price : TickPrices, volume : TradeVolumes]

IngestTradeInOrder ==
    \E tick \in TradeTicks :
        /\ tick_log # <<>> => tick.timestamp >= Last(tick_log).timestamp
        /\ _process_tick_data(tick)
        /\ BarVolumesBounded'
        /\ tick_log' = Append(tick_log, tick)
        /\ UNCHANGED <<bookVars, seed, history, commit_log, frame_log, returned, threadVars, quoteVars, lifeVars>>

NextTrades == IngestTradeInOrder

SpecTrades == InitBars /\ [][NextTrades]_vars

(***************************************************************************)
(* SpecBook: depth frames of one or two entries of types 1, 2, 9 and 10,   *)
(* any price and any volume (0 included), applied to a book that starts    *)
(* empty; one frame carries another contract's id.                         *)
(***************************************************************************)
LevelVolumes == {0, 1, 2}
BookEntries == [type : {1, 2, 9, 10}, price : Prices, volume : LevelVolumes]
\* a frame of one entry, or a bid and an ask level together
BookFrameData ==
    {<<e>> : e \in BookEntries}
    \cup {<<e, f>> : e \in {x \in BookEntries : x.type = 2 /\ x.volume > 0},
                    f \in {x \in BookEntries : x.type = 1 /\ x.volume > 0}}
BookFrames ==
    [contract_id : {OwnContract}, data : BookFrameData]
    \cup {[contract_id |-> OtherContract, data |-> <<[type |-> 2, price |-> 1, volume |-> 1]>>]}

InitBook ==
    /\ timeframes = BarTimeframes
    /\ data = [tf \in RangeOf(BarTimeframes) |-> <<SeedBar(0)>>]
    /\ is_running = TRUE
    /\ contract_id = OwnContract
    /\ orderbook_bids = <<>>
    /\ orderbook_asks = <<>>
    /\ recent_trades = <<>>
    /\ orderbook_lock = "free"
    /\ data_lock = "free"
    /\ callbacks = [c \in Channels |-> <<>>]
    /\ received = [s \in Subscribers |-> <<>>]
    /\ main_loop = "none"
    /\ seed = data
    /\ tick_log = <<>>
    /\ OneThreadIdle

DepthFrame ==
    \E frame \in BookFrames :
        /\ _on_market_depth(frame)
        /\ UNCHANGED <<barVars, histVars, threadVars, quoteVars, lifeVars>>

NextBook == DepthFrame

SpecBook == InitBook /\ [][NextBook]_vars

(***************************************************************************)
(* SpecTape: depth frames that carry trades (type 5) next to bid and ask   *)
(* levels and an entry of an unknown type.                                 *)
(***************************************************************************)
\* bids at 0 and 1, asks at 1 and 3: the book can be empty on a side, have
\* a best bid of 0, be locked at 1, or leave room between bid 1 and ask 3
TapeLevelEntries ==
    [type : {2}, price : {0, 1}, volume : {0, 1}]
    \cup [type : {1}, price : {1, 3}, volume : {0, 1}]
TapeTradeEntries == [type : {5}, price : {1, 2, 3}, volume : {0, 1}, timestamp : {0}]
TapeFrameData ==
    {<<e>> : e \in TapeLevelEntries \cup TapeTradeEntries}
    \cup {<<[type |-> 3, price |-> 1, volume |-> 1]>>}
    \cup {<<e, f>> : e \in TapeLevelEntries, f \in TapeTradeEntries}
    \cup {<<f, e>> : e \in TapeLevelEntries, f \in TapeTradeEntries}
    \cup {<<e, f>> : e, f \in {x \in TapeTradeEntries : x.volume > 0}}
TapeFrames == [contract_id : {OwnContract}, data : TapeFrameData]

TradeFrame ==
    \E frame \in TapeFrames :
        /\ _on_market_depth(frame)
        /\ UNCHANGED <<barVars, histVars, threadVars, quoteVars, lifeVars>>

NextTape == TradeFrame

SpecTape == InitBook /\ [][NextTape]_vars

(***************************************************************************)
(* SpecDelta: trades stamped with different minutes arrive, in any order   *)
(* of their stamps, while a bid at 1 and an ask at 3 come and go, so the   *)
(* tape holds buys, sells and trades of unknown side.                      *)
(***************************************************************************)
TradeTimes == {0, 1, 2}
DeltaLevelEntries ==
    [type : {2}, price : {1}, volume : {0, 1}] \cup [type : {1}, price : {3}, volume : {0, 1}]
DeltaTradeEntries ==
    {[type |-> 5, price |-> pv[1], volume |-> pv[2], timestamp |-> t] :
        pv \in {<<1, 1>>, <<2, 1>>, <<3, 2>>}, t \in TradeTimes}
DeltaFrames ==
    [contract_id : {OwnContract},
     data : {<<e>> : e \in DeltaLevelEntries \cup DeltaTradeEntries}]

DeltaFrame ==
    \E frame \in DeltaFrames :
        /\ _on_market_depth(frame)
        /\ UNCHANGED <<barVars, histVars, threadVars, quoteVars, lifeVars>>

NextDelta == DeltaFrame

SpecDelta == InitBook /\ [][NextDelta]_vars

(***************************************************************************)
(* Claims about the bar series.                                            *)
(***************************************************************************)
BarWellFormed(b) ==
    /\ b.low <= Min2(b.open, b.close)
    /\ Max2(b.open, b.close) <= b.high
    /\ b.low <= b.high
    /\ b.volume >= 1

\* C1: after any sequence of ticks on series whose seeded bars satisfy it,
\* every bar of every timeframe has low <= min(open, close),
\* max(open, close) <= high, low <= high and volume >= 1.
C1_BarsWellFormed ==
    \A tf \in DOMAIN data : \A i \in 1..Len(data[tf]) : BarWellFormed(data[tf][i])

\* a bar built by ticks alone (opened at 2, traded down to 1) next to an
\* earlier bar
C1_Witness ==
    \E tf \in DOMAIN data :
        /\ Len(data[tf]) = 2
        /\ Last(data[tf]).timestamp > 0
        /\ Last(data[tf]).open = 2
        /\ Last(data[tf]).low = 1
        /\ Last(data[tf]).close = 1
        /\ Last(data[tf]).volume = 2

\* C2: in every timeframe the bucket starts of the series are strictly
\* increasing, whatever ticks (late and out-of-order ones included) arrive.
C2_BucketsStrictlyIncreasing ==
    \A tf \in DOMAIN data :
        \A i, j \in 1..Len(data[tf]) :
            i < j => data[tf][i].timestamp < data[tf][j].timestamp

\* the 5-second series after three buckets were opened and the oldest evicted
C2_Witness ==
    /\ Len(data["5sec"]) = 2
    /\ data["5sec"][1].timestamp = 5
    /\ data["5sec"][2].timestamp = 60
    /\ Len(data["1min"]) = 2

\* the ticks of the log that fall into the bucket of timeframe tf
TicksIn(tf, bucket) ==
    SelectSeq(tick_log, LAMBDA t : BarTimeOf(tf, t.timestamp) = bucket)

RECURSIVE SumVolumes(_)
SumVolumes(ts) == IF ts = <<>> THEN 0 ELSE Head(ts).volume + SumVolumes(Tail(ts))

HighestPrice(ts) == CHOOSE p \in {ts[i].price : i \in 1..Len(ts)} :
                        \A i \in 1..Len(ts) : ts[i].price <= p
LowestPrice(ts) == CHOOSE p \in {ts[i].price : i \in 1..Len(ts)} :
                        \A i \in 1..Len(ts) : ts[i].price >= p

\* a bar opened by a tick, not taken from the historical rows
TickBuilt(tf, b) == seed[tf] = <<>> \/ b.timestamp > Last(seed[tf]).timestamp

\* C4: for trade ticks ingested in timestamp order, each bar built from
\* ticks has open = price of the first tick of its bucket, high = the
\* maximum and low = the minimum tick price of the bucket, close = price of
\* the last tick, volume = sum of the tick volumes of the bucket; and the
\* last tick's bucket is the current bar.
C4_BarAggregatesItsTicks ==
    \A tf \in DOMAIN data :
        /\ \A i \in 1..Len(data[tf]) :
              LET b == data[tf][i]
                  T == TicksIn(tf, b.timestamp)
              IN  TickBuilt(tf, b) =>
                     /\ T # <<>>
                     /\ b.open = T[1].price
                     /\ b.high = HighestPrice(T)
                     /\ b.low = LowestPrice(T)
                     /\ b.close = Last(T).price
                     /\ b.volume = SumVolumes(T)
        /\ tick_log # <<>> =>
              /\ data[tf] # <<>>
              /\ Last(data[tf]).timestamp = BarTimeOf(tf, Last(tick_log).timestamp)

\* from no row: two ticks build the first minute's bar, a third opens the next
C4_Witness ==
    /\ seed["1min"] = <<>>
    /\ Len(tick_log) = 3
    /\ data["1min"] =
         << [timestamp |-> 0, open |-> 1, high |-> 2, low |-> 1, close |-> 2, volume |-> 2],
            [timestamp |-> 60, open |-> 2, high |-> 2, low |-> 2, close |-> 2, volume |-> 2] >>

\* the new_bar events subscriber s1 received for timeframe tf
NewBarEvents(tf) ==
    Cardinality({i \in 1..Len(received["s1"]) :
                    /\ received["s1"][i].channel = "new_bar"
                    /\ received["s1"][i].payload.timeframe = tf})

\* this step pushed a bar onto the series of tf
Pushed(tf) ==
    /\ data'[tf] # <<>>
    /\ \/ data[tf] = <<>>
       \/ Last(data'[tf]).timestamp > Last(data[tf]).timestamp

\* C5: new_bar is emitted exactly once for every bar pushed onto a series
\* (whether the series was empty or the tick opened a later bucket) and
\* never for an in-place update or a late tick.
C5_NewBarForEveryPush ==
    [][\A tf \in DOMAIN data :
          NewBarEvents(tf)' = NewBarEvents(tf) + (IF Pushed(tf) THEN 1 ELSE 0)]_vars

(***************************************************************************)
(* SpecTicks: ticks of any time, price and volume, in any order, on series *)
(* as initialize leaves them: initialize stores whatever the historical    *)
(* fetch returned (lines 353-369) and applies no cap, so a series starts   *)
(* with one row or with more rows than _update_timeframe_data keeps.       *)
(* tick_log holds the tick handled last.                                   *)
(***************************************************************************)
\* MaxBars + 1 historical rows, one per minute, the last one at second 60
LongSeed == [i \in 1..(MaxBars + 1) |-> SeedBar(60 * (i - MaxBars))]

InitTicks ==
    /\ timeframes = BarTimeframes
    /\ data \in [RangeOf(BarTimeframes) -> {<<SeedBar(0)>>, LongSeed}]
    /\ is_running = TRUE
    /\ contract_id = OwnContract
    /\ orderbook_bids = <<>>
    /\ orderbook_asks = <<>>
    /\ recent_trades = <<>>
    /\ orderbook_lock = "free"
    /\ data_lock = "free"
    /\ callbacks = [c \in Channels |-> IF c = "new_bar" THEN <<"s1">> ELSE <<>>]
    /\ received = [s \in Subscribers |-> <<>>]
    /\ main_loop = "none"
    /\ seed = data
    /\ tick_log = <<>>
    /\ OneThreadIdle

IngestAnyTick ==
    \E tick \in Ticks :
        /\ _process_tick_data(tick)
        /\ BarVolumesBounded'
        /\ tick_log' = <<tick>>
        /\ UNCHANGED <<bookVars, seed, history, commit_log, frame_log, returned, threadVars, quoteVars, lifeVars>>

NextTicks == IngestAnyTick

SpecTicks == InitTicks /\ [][NextTicks]_vars

\* the bucket of the tick lies before the last bar of the series
LateFor(tf, tick, d) ==
    /\ d[tf] # <<>>
    /\ BarTimeOf(tf, tick.timestamp) # Unsupported
    /\ BarTimeOf(tf, tick.timestamp) < Last(d[tf]).timestamp

\* C17: a tick whose bucket is earlier than the last bar's bucket_start
\* leaves every bar of that timeframe unchanged (none added, removed or
\* modified) and emits no new_bar for it.
C17_LateTickChangesNothing ==
    [][\A tf \in DOMAIN data :
          LateFor(tf, tick_log'[1], data) =>
              /\ data'[tf] = data[tf]
              /\ NewBarEvents(tf)' = NewBarEvents(tf)]_vars

\* supporting property (SpecTicks): the same on a series within the cap
LateTickChangesNothing_WithinCap ==
    [][\A tf \in DOMAIN data :
          LateFor(tf, tick_log'[1], data) /\ Len(data[tf]) <= MaxBars =>
              /\ data'[tf] = data[tf]
              /\ NewBarEvents(tf)' = NewBarEvents(tf)]_vars

\* a tick of volume 0 in the bucket of the last bar, at that bar's close
RepeatsClose(tf, tick, d) ==
    /\ d[tf] # <<>>
    /\ tick.volume = 0
    /\ BarTimeOf(tf, tick.timestamp) = Last(d[tf]).timestamp
    /\ tick.price = Last(d[tf]).close

\* C18: a tick with volume 0 whose bucket equals the last bar's bucket_start
\* and whose price equals that bar's close leaves the series unchanged, so
\* any number of such ticks yields the same series as one.
C18_RepeatedCloseChangesNothing ==
    [][\A tf \in DOMAIN data :
          RepeatsClose(tf, tick_log'[1], data) => data'[tf] = data[tf]]_vars

\* supporting property (SpecTicks): the same on a series within the cap
RepeatedCloseChangesNothing_WithinCap ==
    [][\A tf \in DOMAIN data :
          RepeatsClose(tf, tick_log'[1], data) /\ Len(data[tf]) <= MaxBars =>
              data'[tf] = data[tf]]_vars

(***************************************************************************)
(* SpecHours: an engine configured with a SECOND, a MINUTE and an HOUR     *)
(* timeframe (all three are accepted by __init__, lines 166-190), each     *)
(* series seeded with one row, and ticks within the first hour and at the  *)
(* start of the next.  tick_log holds the tick handled last.               *)
(***************************************************************************)
HourTimeframes == <<"5sec", "1min", "1hr">>
HourTickTimes == {4, 60, 3600}
HourTicks == [timestamp : HourTickTimes, price : TickPrices, volume : TickVolumes]

InitHours ==
    /\ timeframes = HourTimeframes
    /\ data = [tf \in RangeOf(HourTimeframes) |-> <<SeedBar(0)>>]
    /\ is_running = TRUE
    /\ contract_id = OwnContract
    /\ orderbook_bids = <<>>
    /\ orderbook_asks = <<>>
    /\ recent_trades = <<>>
    /\ orderbook_lock = "free"
    /\ data_lock = "free"
    /\ callbacks = [c \in Channels |-> IF c = "new_bar" THEN <<"s1">> ELSE <<>>]
    /\ received = [s \in Subscribers |-> <<>>]
    /\ main_loop = "none"
    /\ seed = data
    /\ tick_log = <<>>
    /\ OneThreadIdle

IngestHourTick ==
    \E tick \in HourTicks :
        /\ _process_tick_data(tick)
        /\ BarVolumesBounded'
        /\ tick_log' = <<tick>>
        /\ UNCHANGED <<bookVars, seed, history, commit_log, frame_log, returned, threadVars, quoteVars, lifeVars>>

NextHours == IngestHourTick

SpecHours == InitHours /\ [][NextHours]_vars

\* the floor rule on the unit of the timeframe, in seconds
FloorBucket(tf, timestamp) ==
    LET width == CASE TIMEFRAMES[tf].unit = 1 -> TIMEFRAMES[tf].interval
                   [] TIMEFRAMES[tf].unit = 2 -> 60 * TIMEFRAMES[tf].interval
                   [] OTHER -> 3600 * (TIMEFRAMES[tf].interval \div 60)
    IN  timestamp - (timestamp % width)

\* C16: on a timeframe whose unit is HOUR or larger a live tick is bucketed
\* by the floor rule on that unit and then opens a new bar or updates the
\* current bar exactly as on SECOND and MINUTE timeframes: a tick that is
\* not late leaves the last bar at the tick's bucket, closing at its price.
C16_HourTickReachesBar ==
    [][\A i \in 1..Len(timeframes) :
          LET tf == timeframes[i]
              tick == tick_log'[1]
          IN  FloorBucket(tf, tick.timestamp) >= Last(data[tf]).timestamp =>
                 /\ Last(data'[tf]).timestamp = FloorBucket(tf, tick.timestamp)
                 /\ Last(data'[tf]).close = tick.price]_vars

\* supporting property (SpecHours): the same on the SECOND and MINUTE
\* timeframes only
TickReachesBar_SecondMinute ==
    [][\A i \in 1..Len(timeframes) :
          LET tf == timeframes[i]
              tick == tick_log'[1]
          IN  /\ TIMEFRAMES[tf].unit \in {1, 2}
              /\ FloorBucket(tf, tick.timestamp) >= Last(data[tf]).timestamp
              => /\ Last(data'[tf]).timestamp = FloorBucket(tf, tick.timestamp)
                 /\ Last(data'[tf]).close = tick.price]_vars

(***************************************************************************)
(* SpecQuotes: quote frames for this contract (and one for another), with  *)
(* a bid, an ask, a last price and a trade size each present or not, as    *)
(* the clock advances.  frame_log holds the frame handled last and the     *)
(* clock reading at its arrival.                                           *)
(***************************************************************************)
NoQuote ==
    [bestBid |-> None, bid |-> None, bestAsk |-> None, ask |-> None,
     lastPrice |-> None, last |-> None, price |-> None, volume |-> None]
QuoteData ==
    {[NoQuote EXCEPT !.bestBid = b, !.bestAsk = a, !.lastPrice = l, !.volume = v] :
        b \in {None, 2}, a \in {None, 4}, l \in {None, 1}, v \in {None, 1, 2}}
QuoteFrames ==
    [contract_id : {OwnContract}, data : QuoteData]
    \cup {[contract_id |-> OtherContract, data |-> [NoQuote EXCEPT !.bestBid = 2]]}
QuoteTimes == {4, 60}

InitQuotes ==
    /\ timeframes = BarTimeframes
    /\ data = [tf \in RangeOf(BarTimeframes) |-> <<SeedBar(0)>>]
    /\ is_running = TRUE
    /\ contract_id = OwnContract
    /\ orderbook_bids = <<>>
    /\ orderbook_asks = <<>>
    /\ recent_trades = <<>>
    /\ orderbook_lock = "free"
    /\ data_lock = "free"
    /\ callbacks = [c \in Channels |-> IF c = "quote_update" THEN <<"s1">> ELSE <<>>]
    /\ received = [s \in Subscribers |-> <<>>]
    /\ main_loop = "none"
    /\ seed = data
    /\ tick_log = <<>>
    /\ OneThreadIdle

QuoteFrame ==
    \E frame \in QuoteFrames, now \in QuoteTimes :
        /\ frame_log # <<>> => now >= frame_log[1].now
        /\ Len(received["s1"]) < MaxQuotes
        /\ _on_quote_update(frame, now)
        /\ BarVolumesBounded'
        /\ frame_log' = <<[frame |-> frame, now |-> now]>>
        /\ UNCHANGED <<bookVars, seed, tick_log, history, commit_log, returned, threadVars, lifeVars>>

NextQuotes == QuoteFrame

SpecQuotes == InitQuotes /\ [][NextQuotes]_vars

\* the frame handled last carried a last price and a volume, for this contract
TradeFrameHandled ==
    /\ frame_log'[1].frame.contract_id = contract_id
    /\ frame_log'[1].frame.data.lastPrice # None
    /\ frame_log'[1].frame.data.volume # None

\* C15: when a quote frame carries both a last price and a volume (a TRADE
\* tick), the tick ingested into the bar series carries that trade size, so
\* the current bar's volume grows by the trade size.
C15_TradeTickCarriesSize ==
    [][\A tf \in DOMAIN data :
          /\ TradeFrameHandled
          /\ BarTimeOf(tf, frame_log'[1].now) = Last(data[tf]).timestamp
          => Last(data'[tf]).volume
                = Last(data[tf]).volume + frame_log'[1].frame.data.volume]_vars

(***************************************************************************)
(* SpecThreads: two transport threads deliver quote ticks (volume 0, line  *)
(* 597) while a reader calls get_mtf_data.  history and commit_log record  *)
(* the order in which the fan-outs took data_lock.                         *)
(***************************************************************************)
QuoteTicks == [timestamp : TickTimes, price : TickPrices, volume : {0}]

InitThreads ==
    /\ timeframes = BarTimeframes
    /\ data = [tf \in RangeOf(BarTimeframes) |-> <<SeedBar(0)>>]
    /\ is_running = TRUE
    /\ contract_id = OwnContract
    /\ orderbook_bids = <<>>
    /\ orderbook_asks = <<>>
    /\ recent_trades = <<>>
    /\ orderbook_lock = "free"
    /\ data_lock = "free"
    /\ callbacks = [c \in Channels |-> IF c = "data_update" THEN <<"s1">>
                                      ELSE IF c = "new_bar" THEN <<"s2">> ELSE <<>>]
    /\ received = [s \in Subscribers |-> <<>>]
    /\ main_loop = "none"
    /\ seed = data
    /\ tick_log = <<>>
    /\ thread_pc = [t \in Threads |-> "idle"]
    /\ thread_tick = [t \in Threads |-> None]
    /\ reader_pc = 0
    /\ mtf_data = EmptyDict
    /\ history = <<data>>
    /\ commit_log = <<>>
    /\ last_quote_state = [bid |-> None, ask |-> None]
    /\ frame_log = <<>>
    /\ FeedStarted

CommitTick ==
    \E t \in Threads, tick \in QuoteTicks :
        /\ Len(commit_log) < MaxTicks
        /\ TickCommit(t, tick)
        /\ history' = Append(history, data')
        /\ commit_log' = Append(commit_log, TickPayload(tick))
        /\ UNCHANGED <<bookVars, seed, tick_log, frame_log, returned, quoteVars, lifeVars>>

DispatchTick ==
    \E t \in Threads : TickDispatch(t) /\ UNCHANGED <<bookVars, histVars, quoteVars, lifeVars>>

ReadBegin == get_mtf_data_begin /\ UNCHANGED <<bookVars, histVars, quoteVars, lifeVars>>
ReadFetch == get_mtf_data_fetch /\ UNCHANGED <<bookVars, histVars, quoteVars, lifeVars>>
ReadReturn == get_mtf_data_return /\ UNCHANGED <<bookVars, histVars, quoteVars, lifeVars>>

NextThreads == CommitTick \/ DispatchTick \/ ReadBegin \/ ReadFetch \/ ReadReturn

SpecThreads == InitThreads /\ [][NextThreads]_vars

(***************************************************************************)
(* Claims about the order book and the trade tape.                         *)
(***************************************************************************)
SideWellFormed(rows) ==
    /\ Len(rows) <= MaxLevels
    /\ \A i \in 1..Len(rows) : rows[i].volume > 0
    /\ \A i, j \in 1..Len(rows) : i # j => rows[i].price # rows[j].price

\* C3: after any sequence of depth frames (types 1, 2, 9, 10, any price, any
\* volume including 0) each side holds at most the cap of levels (MaxLevels
\* here, 100 in the code), every stored level has volume > 0 and no price
\* appears twice on a side.
C3_BookSidesWellFormed ==
    SideWellFormed(orderbook_bids) /\ SideWellFormed(orderbook_asks)

\* both sides filled to the cap
C3_Witness ==
    Len(orderbook_bids) = MaxLevels /\ Len(orderbook_asks) = MaxLevels

\* the levels of a side after one entry, as the specification words it
ApplyLevel(levels, e) ==
    {l \in levels : l.price # e.price}
    \cup (IF e.volume = 0 THEN {} ELSE {[price |-> e.price, volume |-> e.volume]})

\* ... and after the entries of the given type of a frame, in frame order
RECURSIVE ApplyEntries(_, _, _)
ApplyEntries(levels, entries, type) ==
    IF entries = <<>> THEN levels
    ELSE ApplyEntries(IF Head(entries).type = type
                      THEN ApplyLevel(levels, Head(entries)) ELSE levels,
                      Tail(entries), type)

\* the MaxLevels best levels of a side: highest bids, lowest asks
BestLevels(levels, side) ==
    {l \in levels :
        Cardinality({q \in levels : IF side = "bid" THEN q.price > l.price
                                                  ELSE q.price < l.price}) < MaxLevels}

\* frames of type-1 and type-2 entries: one entry, a bid with an ask, or two
\* entries for the same side and price
LevelFrames ==
    {d \in BookFrameData : \A i \in 1..Len(d) : d[i].type \in {1, 2}}
    \cup UNION {{<<[type |-> t, price |-> p, volume |-> v], [type |-> t, price |-> p, volume |-> w]>> :
                    v, w \in LevelVolumes} : t \in {1, 2}, p \in Prices}

\* C8 as stated: a type-1 or type-2 entry with volume 0 removes the level,
\* any other volume sets it, the last entry of a frame for a side and price
\* wins, and every other level of that side and the other side are unchanged.
C8_LevelUpdateExact ==
    \A d \in LevelFrames :
        LET r == DepthResult(d, orderbook_bids, orderbook_asks, recent_trades) IN
        /\ RangeOf(r.bids) = ApplyEntries(RangeOf(orderbook_bids), d, 2)
        /\ RangeOf(r.asks) = ApplyEntries(RangeOf(orderbook_asks), d, 1)

\* C8 amended: ... and after the frame's entries a side keeps only its best
\* levels up to the cap, so at the cap a level other than the one written
\* (or the written one) is dropped.
C8_LevelUpdateThenCap ==
    \A d \in LevelFrames :
        LET r == DepthResult(d, orderbook_bids, orderbook_asks, recent_trades) IN
        /\ RangeOf(r.bids) = BestLevels(ApplyEntries(RangeOf(orderbook_bids), d, 2), "bid")
        /\ RangeOf(r.asks) = BestLevels(ApplyEntries(RangeOf(orderbook_asks), d, 1), "ask")
        /\ r.trades = recent_trades

\* a bid side at the cap whose best level was written with volume 2, next to
\* a single ask
C8_Witness ==
    /\ Len(orderbook_bids) = MaxLevels
    /\ orderbook_bids[1].volume = 2
    /\ Len(orderbook_asks) = 1

\* C9: a type-9 or type-10 entry at price p is applied as an update to the
\* bid side only when p <= mid, to the ask side only when p > mid, and to
\* both sides when the mid is unknown, that is when some side is empty.
C9_ModifyBySideOfMid ==
    \A e \in {x \in BookEntries : x.type \in {9, 10} /\ x.price # 0} :
        LET known == orderbook_bids # <<>> /\ orderbook_asks # <<>>
            to_bid == known => 2 * e.price <= orderbook_bids[1].price + orderbook_asks[1].price
            to_ask == known => 2 * e.price > orderbook_bids[1].price + orderbook_asks[1].price
            r == DepthResult(<<e>>, orderbook_bids, orderbook_asks, recent_trades)
        IN  /\ RangeOf(r.bids) =
                 IF to_bid THEN BestLevels(ApplyLevel(RangeOf(orderbook_bids), e), "bid")
                           ELSE RangeOf(orderbook_bids)
            /\ RangeOf(r.asks) =
                 IF to_ask THEN BestLevels(ApplyLevel(RangeOf(orderbook_asks), e), "ask")
                           ELSE RangeOf(orderbook_asks)

\* neither side has its best level at price 0
NoZeroBest ==
    /\ orderbook_bids # <<>> => orderbook_bids[1].price # 0
    /\ orderbook_asks # <<>> => orderbook_asks[1].price # 0

\* supporting property (SpecBook): away from a best price of 0 the type-9
\* and type-10 entries are classified by the mid as stated
ModifyBySideOfMid_OffZero == NoZeroBest => C9_ModifyBySideOfMid

\* C10: a type-5 entry with positive volume is appended to the tape tagged
\* buy when price >= best ask, sell when price <= best bid, unknown
\* otherwise (between bid and ask, or a side of the book empty); one with
\* volume <= 0 is not appended.
C10_TradeTaggedFromTopOfBook ==
    \A e \in TapeTradeEntries :
        LET known == orderbook_bids # <<>> /\ orderbook_asks # <<>>
            side == IF ~known THEN "unknown"
                    ELSE IF e.price >= orderbook_asks[1].price THEN "buy"
                    ELSE IF e.price <= orderbook_bids[1].price THEN "sell"
                    ELSE "unknown"
            r == DepthResult(<<e>>, orderbook_bids, orderbook_asks, recent_trades)
        IN  r.trades =
               IF e.volume <= 0 THEN recent_trades
               ELSE Tail_n(Append(recent_trades,
                                  [price |-> e.price, volume |-> e.volume,
                                   timestamp |-> e.timestamp, side |-> side]),
                           MaxTrades)

\* supporting property (SpecTape): away from a best price of 0 the trades
\* are tagged from the top of book as stated
TradeTagged_OffZero == NoZeroBest => C10_TradeTaggedFromTopOfBook

\* price and volume of the rows, in order
PriceVolume(rows) ==
    [i \in 1..Len(rows) |-> [price |-> rows[i].price, volume |-> rows[i].volume]]

\* the trades a frame carries, in frame order
TradesOf(depth_data) ==
    PriceVolume(SelectSeq(depth_data, LAMBDA e : e.type = 5 /\ e.volume > 0))

\* frames of type-5 entries only
TradeOnlyFrames ==
    {d \in TapeFrameData : \A i \in 1..Len(d) : d[i].type = 5}

\* C19: after any sequence of depth frames with type-5 entries the tape
\* holds at most the cap of trades (MaxTrades here, 1000 in the code) in
\* arrival order with the newest last; past the cap the oldest are dropped.
C19_TapeKeepsNewest ==
    /\ Len(recent_trades) <= MaxTrades
    /\ \A d \in TradeOnlyFrames :
          PriceVolume(DepthResult(d, orderbook_bids, orderbook_asks, recent_trades).trades)
             = Tail_n(PriceVolume(recent_trades) \o TradesOf(d), MaxTrades)

\* a full tape whose oldest and newest trades differ
C19_Witness ==
    /\ Len(recent_trades) = MaxTrades
    /\ recent_trades[1].price # recent_trades[MaxTrades].price

\* the windows asked for and the clock readings, in minutes
Windows == {0, 1, 2}
ClockReadings == {0, 1, 2, 3}

\* the volume of the tape trades of one side stamped within the window
RECURSIVE VolumeOf(_)
VolumeOf(indices) ==
    IF indices = {} THEN 0
    ELSE LET i == CHOOSE k \in indices : TRUE
         IN  recent_trades[i].volume + VolumeOf(indices \ {i})

VolumeInWindow(side, now, w) ==
    VolumeOf({i \in 1..Len(recent_trades) :
                 /\ recent_trades[i].side = side
                 /\ now - w <= recent_trades[i].timestamp
                 /\ recent_trades[i].timestamp <= now})

ResultOf(d) ==
    [tf \in {k \in DOMAIN d : Len(d[k]) > 0} |-> d[tf]]

\* C6: a result of get_mtf_data obtained while ticks are ingested reflects
\* one prefix of the ingested ticks in all its timeframes: it is the result
\* of some value self.data held between two fan-outs.
C6_MtfResultIsOneSnapshot ==
    reader_pc = Len(timeframes) + 1 =>
        \E k \in 1..Len(history) : mtf_data = ResultOf(history[k])

\* the data_update payloads a subscriber was invoked with, in order
DataUpdatesOf(s) ==
    LET log == SelectSeq(received[s], LAMBDA m : m.channel = "data_update")
    IN  [i \in 1..Len(log) |-> log[i].payload]

\* a is b with some elements left out
RECURSIVE IsSubSeq(_, _)
IsSubSeq(a, b) ==
    IF a = <<>> THEN TRUE
    ELSE IF b = <<>> THEN FALSE
    ELSE IF Head(a) = Head(b) THEN IsSubSeq(Tail(a), Tail(b))
    ELSE IsSubSeq(a, Tail(b))

\* C7: a subscriber of a channel is invoked for the events of that channel
\* in the order they were committed: the data_update payloads it has seen
\* are in commit order, whichever transport thread delivered each tick.
C7_DataUpdatesInCommitOrder ==
    \A s \in Subscribers : IsSubSeq(DataUpdatesOf(s), commit_log)


(***************************************************************************)
(* SpecLife: the lifecycle of one manager from construction.  initialize,  *)
(* start_realtime_feed, stop_realtime_feed and force_data_refresh are      *)
(* called in any order with any answers of the historical source and of    *)
(* the transport; ticks arrive while the transport is connected and        *)
(* subscribed, and so does a depth frame that crosses the book.  returned  *)
(* holds the call made last, its inputs and the value it returned.         *)
(***************************************************************************)
Attempts == {<<"raise", "empty", "data">>, <<"empty", "raise", "empty">>}
Fetches == [RangeOf(BarTimeframes) -> Attempts]
Instruments == {OwnContract, NoContract}
Tokens ==
    {[length |-> 0, dots |-> 0], [length |-> 49, dots |-> 2], [length |-> 50, dots |-> 1],
     [length |-> 50, dots |-> 2], [length |-> 50, dots |-> 3]}
\* what the transport answers to connect and to subscribe_market_data, and
\* whether a failed connect leaves a hub connected
Answers ==
    [connect : {"ok"}, partial : {FALSE}, subscribe : {"ok", "false", "raise"}]
    \cup [connect : {"false", "raise"}, partial : BOOLEAN, subscribe : {"ok"}]
LifeTicks == [timestamp : {4, 60}, price : {1}, volume : {0}]
NotConnected ==
    [connected |-> FALSE, handlers |-> FALSE, subscribed |-> FALSE, disconnects |-> 0]

\* __init__, lines 186-225
InitLife ==
    /\ timeframes = BarTimeframes
    /\ data = EmptyDict
    /\ is_running = FALSE
    /\ contract_id = NoContract
    /\ orderbook_bids = <<>>
    /\ orderbook_asks = <<>>
    /\ recent_trades = <<>>
    /\ orderbook_lock = "free"
    /\ data_lock = "free"
    /\ callbacks = [c \in Channels |-> <<>>]
    /\ received = [s \in Subscribers |-> <<>>]
    /\ main_loop = "none"
    /\ seed = data
    /\ tick_log = <<>>
    /\ thread_pc = [t \in Threads |-> "idle"]
    /\ thread_tick = [t \in Threads |-> None]
    /\ reader_pc = 0
    /\ mtf_data = EmptyDict
    /\ history = <<>>
    /\ commit_log = <<>>
    /\ last_quote_state = [bid |-> None, ask |-> None]
    /\ frame_log = <<>>
    /\ client = "unset"
    /\ realtime_client = "none"
    /\ transport = NotConnected
    /\ returned = <<>>

Apply(e) ==
    /\ data' = e.data
    /\ contract_id' = e.contract_id
    /\ is_running' = e.is_running
    /\ client' = e.client
    /\ realtime_client' = e.realtime_client
    /\ transport' = e.transport

lifeRest ==
    <<timeframes, data_lock, orderbook_bids, orderbook_asks, recent_trades, orderbook_lock, cbVars,
      seed, tick_log, history, commit_log, frame_log, threadVars, quoteVars>>

Initialize ==
    \E fetches \in Fetches, instrument \in Instruments :
        LET r == initialize(Engine, fetches, instrument) IN
        /\ Apply(r.e)
        /\ returned' = [call |-> "initialize", value |-> r.value,
                        fetches |-> fetches, instrument |-> instrument]
        /\ UNCHANGED lifeRest

StartFeed ==
    \E jwt_token \in Tokens, answer \in Answers :
        LET r == start_realtime_feed(Engine, jwt_token, answer.connect, answer.partial,
                                     answer.subscribe) IN
        /\ Apply(r.e)
        /\ returned' = [call |-> "start_realtime_feed", value |-> r.value,
                        jwt_token |-> jwt_token, connect |-> answer.connect,
                        subscribe |-> answer.subscribe]
        /\ UNCHANGED lifeRest

StopFeed ==
    /\ Apply(stop_realtime_feed(Engine))
    /\ returned' = [call |-> "stop_realtime_feed"]
    /\ UNCHANGED lifeRest

ForceRefresh ==
    \E fetches \in Fetches, instrument \in Instruments, jwt_token \in Tokens,
       answer \in Answers :
        LET r == force_data_refresh(Engine, fetches, instrument, jwt_token,
                                    answer.connect, answer.partial, answer.subscribe) IN
        /\ Apply(r.e)
        /\ returned' = [call |-> "force_data_refresh", value |-> r.value,
                        was_running |-> is_running, before |-> data]
        /\ UNCHANGED lifeRest

LifeTick ==
    \E tick \in LifeTicks :
        /\ transport.connected /\ transport.subscribed
        /\ _process_tick_data(tick)
        /\ BarVolumesBounded'
        /\ returned' = [call |-> "tick"]
        /\ UNCHANGED <<bookVars, seed, tick_log, history, commit_log, frame_log,
                       threadVars, quoteVars, lifeVars>>

\* a depth frame with a bid at 2 and an ask at 1
LifeFrames ==
    {[contract_id |-> OwnContract,
      data |-> <<[type |-> 2, price |-> 2, volume |-> 1],
                 [type |-> 1, price |-> 1, volume |-> 1]>>]}

LifeDepth ==
    \E frame \in LifeFrames :
        /\ transport.connected /\ transport.subscribed
        /\ _on_market_depth(frame)
        /\ returned' = [call |-> "market_depth"]
        /\ UNCHANGED <<barVars, seed, tick_log, history, commit_log, frame_log,
                       threadVars, quoteVars, lifeVars>>

NextLife == Initialize \/ StartFeed \/ StopFeed \/ ForceRefresh \/ LifeTick \/ LifeDepth

SpecLife == InitLife /\ [][NextLife]_vars

\* the start_realtime_feed call made last, by what it was given
StartCalled == returned # <<>> /\ returned.call = "start_realtime_feed"
TokenWellShaped ==
    /\ returned.jwt_token.length > 0
    /\ returned.jwt_token.length >= 50
    /\ returned.jwt_token.dots = 2
TransportAccepted == returned.connect = "ok" /\ returned.subscribe = "ok"

FetchFailed ==
    /\ returned # <<>>
    /\ returned.call = "initialize"
    /\ \E tf \in DOMAIN returned.fetches :
          \A i \in 1..Len(returned.fetches[tf]) : returned.fetches[tf][i] # "data"

\* C12: when the historical fetch of a configured timeframe fails on every
\* attempt, initialize returns False, seeds no series and resolves no
\* contract_id.
C12_FailedFetchSeedsNothing ==
    [][FetchFailed' =>
          /\ ~returned'.value
          /\ data' = data
          /\ contract_id' = contract_id]_vars

\* supporting property (SpecLife): such a call returns False and resolves no
\* contract_id
FailedFetchReturnsFalse ==
    [][FetchFailed' => ~returned'.value /\ contract_id' = contract_id]_vars

\* C13: a start_realtime_feed call on an engine that is not running and
\* holds no client, in which connect or subscribe_market_data fails, returns
\* False and leaves the engine not running, without a client, and no
\* transport connected or carrying the engine's handlers.
C13_FailedStartLeavesNothing ==
    [][(/\ StartCalled'
        /\ ~is_running
        /\ client # "client"
        /\ ~TransportAccepted') =>
          /\ ~returned'.value
          /\ ~is_running'
          /\ client' # "client"
          /\ realtime_client' = realtime_client
          /\ ~transport'.connected
          /\ ~transport'.handlers]_vars

\* supporting property (SpecLife): such a call returns False and leaves the
\* engine not running
FailedStartReturnsFalse ==
    [][(StartCalled' /\ ~is_running /\ ~TransportAccepted') =>
          ~returned'.value /\ ~is_running']_vars

HealthClock == {60, 80, 400}

\* the engine is running and every configured timeframe has a last bar no
\* older than its budget
RunningAndFresh(now) ==
    /\ is_running
    /\ \A i \in 1..Len(timeframes) :
          /\ timeframes[i] \in DOMAIN data
          /\ Len(data[timeframes[i]]) > 0
          /\ now - Last(data[timeframes[i]]).timestamp <= MaxAge(timeframes[i])

\* C14: health_check() is True exactly when the engine is running, every
\* configured timeframe has at least one bar and the last bar of each is no
\* older than its staleness budget.
C14_HealthIffRunningAndFresh ==
    \A now \in HealthClock : health_check(now) = RunningAndFresh(now)

\* supporting property (SpecLife): with an aware clock reading and every
\* configured timeframe seeded, the check is as the specification words it
HealthWithAwareClock ==
    (\A i \in 1..Len(timeframes) : timeframes[i] \in DOMAIN data) =>
        \A now \in HealthClock : HealthCheck(now, TRUE) = RunningAndFresh(now)

\* supporting property (SpecLife): health_check() is False whenever a
\* series holds a bar
HealthFalseWithBars ==
    (\E tf \in DOMAIN data : data[tf] # <<>>) =>
        \A now \in HealthClock : ~health_check(now)


\* both sides of the book hold a level and the best bid is not below the
\* best ask
Crossed ==
    /\ orderbook_bids # <<>>
    /\ orderbook_asks # <<>>
    /\ orderbook_bids[1].price >= orderbook_asks[1].price

\* C21: while the book is crossed health_check() does not report the
\* engine healthy.
C21_CrossedBookFlagged ==
    Crossed => \A now \in HealthClock : ~health_check(now)

\* supporting property (SpecLife): a depth frame that crosses the book is
\* applied as it is, nothing resolves the cross
CrossedBookTolerated ==
    [][(returned'.call = "market_depth" /\ contract_id = OwnContract) =>
          Crossed']_vars


(***************************************************************************)
(* SpecFrames: frames of the three inbound channels, for this contract and *)
(* for another one, handled one after the other; a subscriber listens on   *)
(* each of the three channels.  frame_log holds the frame handled last and *)
(* its channel.                                                            *)
(***************************************************************************)
InboundDepth ==
    [contract_id : {OwnContract, OtherContract},
     data : {<<[type |-> 2, price |-> 1, volume |-> 1]>>,
             <<[type |-> 1, price |-> 2, volume |-> 1]>>,
             <<[type |-> 5, price |-> 1, volume |-> 1, timestamp |-> 0]>>}]
InboundQuotes ==
    [contract_id : {OwnContract, OtherContract},
     data : {[NoQuote EXCEPT !.bestBid = 2], [NoQuote EXCEPT !.bestAsk = 4]}]
InboundTrades ==
    [contract_id : {OwnContract, OtherContract}, data : {[price |-> 1, volume |-> 1]}]

InitFrames ==
    /\ timeframes = BarTimeframes
    /\ data = [tf \in RangeOf(BarTimeframes) |-> <<SeedBar(0)>>]
    /\ is_running = TRUE
    /\ contract_id = OwnContract
    /\ orderbook_bids = <<>>
    /\ orderbook_asks = <<>>
    /\ recent_trades = <<>>
    /\ orderbook_lock = "free"
    /\ data_lock = "free"
    /\ callbacks = [c \in Channels |->
                       IF c \in {"market_depth", "quote_update", "market_trade"}
                       THEN <<"s1">> ELSE <<>>]
    /\ received = [s \in Subscribers |-> <<>>]
    /\ main_loop = "none"
    /\ seed = data
    /\ tick_log = <<>>
    /\ OneThreadIdle

framesRest == <<seed, tick_log, history, commit_log, returned, threadVars, lifeVars>>

InboundDepthFrame ==
    \E frame \in InboundDepth :
        /\ Len(received["s1"]) < MaxQuotes
        /\ _on_market_depth(frame)
        /\ frame_log' = <<[channel |-> "market_depth", frame |-> frame]>>
        /\ UNCHANGED <<barVars, quoteVars, framesRest>>

InboundQuoteFrame ==
    \E frame \in InboundQuotes :
        /\ Len(received["s1"]) < MaxQuotes
        /\ _on_quote_update(frame, 4)
        /\ frame_log' = <<[channel |-> "quote_update", frame |-> frame]>>
        /\ UNCHANGED <<bookVars, framesRest>>

InboundTradeFrame ==
    \E frame \in InboundTrades :
        /\ Len(received["s1"]) < MaxQuotes
        /\ _on_market_trade(frame)
        /\ frame_log' = <<[channel |-> "market_trade", frame |-> frame]>>
        /\ UNCHANGED <<barVars, bookVars, quoteVars, framesRest>>

NextFrames == InboundDepthFrame \/ InboundQuoteFrame \/ InboundTradeFrame

SpecFrames == InitFrames /\ [][NextFrames]_vars

\* the frame handled in this step names another contract
ForeignFrame(channels) ==
    /\ frame_log'[1].channel \in channels
    /\ frame_log'[1].frame.contract_id # contract_id

\* bars, book sides, tape and quote state stay as they are and no
\* subscriber is called
NothingHappens ==
    /\ data' = data
    /\ orderbook_bids' = orderbook_bids
    /\ orderbook_asks' = orderbook_asks
    /\ recent_trades' = recent_trades
    /\ last_quote_state' = last_quote_state
    /\ received' = received

\* C22: a market_depth, quote_update or market_trade frame whose
\* contract_id is not the engine's changes no bar, book side, tape row or
\* quote state and reaches no subscriber.
C22_ForeignFrameIgnored ==
    [][ForeignFrame({"market_depth", "quote_update", "market_trade"}) =>
          NothingHappens]_vars

\* supporting property (SpecFrames): the same for the two channels whose
\* handlers compare the contract_id
ForeignDepthAndQuoteIgnored ==
    [][ForeignFrame({"market_depth", "quote_update"}) => NothingHappens]_vars


(***************************************************************************)
(* SpecQuoteState: quote frames for this contract that carry a bid or an   *)
(* ask under one alias or the other, both, a last price with or without a *)
(* volume, or nothing, with 0 among the prices.  frame_log holds every     *)
(* frame handled so far, the newest last; s1 listens on data_update and s2 *)
(* on quote_update.                                                        *)
(***************************************************************************)
PartialQuotes ==
    {NoQuote,
     [NoQuote EXCEPT !.bestBid = 2], [NoQuote EXCEPT !.bid = 6],
     [NoQuote EXCEPT !.bestAsk = 4], [NoQuote EXCEPT !.ask = 8],
     [NoQuote EXCEPT !.bestBid = 0],
     [NoQuote EXCEPT !.bestBid = 2, !.bestAsk = 4],
     [NoQuote EXCEPT !.lastPrice = 1, !.volume = 1],
     [NoQuote EXCEPT !.price = 1, !.volume = 1],
     [NoQuote EXCEPT !.lastPrice = 1]}
PartialFrames == [contract_id : {OwnContract}, data : PartialQuotes]

InitQuoteState ==
    /\ timeframes = BarTimeframes
    /\ data = [tf \in RangeOf(BarTimeframes) |-> <<SeedBar(0)>>]
    /\ is_running = TRUE
    /\ contract_id = OwnContract
    /\ orderbook_bids = <<>>
    /\ orderbook_asks = <<>>
    /\ recent_trades = <<>>
    /\ orderbook_lock = "free"
    /\ data_lock = "free"
    /\ callbacks = [c \in Channels |->
                       CASE c = "data_update" -> <<"s1">>
                         [] c = "quote_update" -> <<"s2">>
                         [] OTHER -> <<>>]
    /\ received = [s \in Subscribers |-> <<>>]
    /\ main_loop = "none"
    /\ seed = data
    /\ tick_log = <<>>
    /\ OneThreadIdle

PartialQuoteFrame ==
    \E frame \in PartialFrames :
        /\ Len(frame_log) < MaxQuotes + 1
        /\ _on_quote_update(frame, 4)
        /\ frame_log' = Append(frame_log, [frame |-> frame, now |-> 4])
        /\ UNCHANGED <<bookVars, seed, tick_log, history, commit_log, returned,
                       threadVars, lifeVars>>

NextQuoteState == PartialQuoteFrame

SpecQuoteState == InitQuoteState /\ [][NextQuoteState]_vars

\* the bid or the ask a frame carries, under either alias
Carried(quote_data, side) ==
    IF side = "bid"
    THEN IF quote_data.bestBid # None THEN quote_data.bestBid ELSE quote_data.bid
    ELSE IF quote_data.bestAsk # None THEN quote_data.bestAsk ELSE quote_data.ask

\* the side as most recently received in the frames of log, None if never
RECURSIVE Known(_, _)
Known(log, side) ==
    IF log = <<>> THEN None
    ELSE IF Carried(Last(log).frame.data, side) # None
    THEN Carried(Last(log).frame.data, side)
    ELSE Known(SubSeq(log, 1, Len(log) - 1), side)

LastOf(quote_data) ==
    IF quote_data.lastPrice # None THEN quote_data.lastPrice
    ELSE IF quote_data.last # None THEN quote_data.last
    ELSE quote_data.price

\* the price of the tick the newest frame of log yields, None for no tick
TickPriceFor(log) ==
    LET q == Last(log).frame.data
        b == Known(log, "bid")
        a == Known(log, "ask")
    IN  IF LastOf(q) # None /\ q.volume # None THEN LastOf(q)
        ELSE IF b # None /\ a # None THEN (b + a) \div 2
        ELSE IF b # None THEN b
        ELSE IF a # None THEN a
        ELSE None

\* subscriber s got exactly one more event in this step
OneMore(s) ==
    /\ Len(received'[s]) = Len(received[s]) + 1
    /\ SubSeq(received'[s], 1, Len(received[s])) = received[s]

TickAsWorded ==
    IF TickPriceFor(frame_log') = None
    THEN received'["s1"] = received["s1"]
    ELSE OneMore("s1") /\ Last(received'["s1"]).payload.price = TickPriceFor(frame_log')

\* C23: the tick of a quote frame is priced at last when the frame carries
\* a last price and a volume; otherwise at the mid of the bid and the ask
\* most recently received in any frame so far, at the one side received
\* when only one was, and there is no tick when neither was.
C23_QuoteTickPrice ==
    [][TickAsWorded]_vars

\* no frame so far carried a price of 0
OffZero(log) ==
    \A i \in 1..Len(log) :
        /\ Carried(log[i].frame.data, "bid") # 0
        /\ Carried(log[i].frame.data, "ask") # 0
        /\ LastOf(log[i].frame.data) # 0

\* supporting property (SpecQuoteState): the same while no price is 0
QuoteTickPrice_OffZero ==
    [][OffZero(frame_log') => TickAsWorded]_vars

BothSidesKnown(state) == state.bid # None /\ state.ask # None
OneSideKnown(state) == (state.bid # None) # (state.ask # None)

GoodToken == [length |-> 50, dots |-> 2]

InitStop ==
    /\ timeframes = BarTimeframes
    /\ data = [tf \in RangeOf(BarTimeframes) |-> HistoricalRows]
    /\ is_running = FALSE
    /\ contract_id = OwnContract
    /\ orderbook_bids = <<>>
    /\ orderbook_asks = <<>>
    /\ recent_trades = <<>>
    /\ orderbook_lock = "free"
    /\ data_lock = "free"
    /\ callbacks = [c \in Channels |-> <<>>]
    /\ received = [s \in Subscribers |-> <<>>]
    /\ main_loop = "none"
    /\ seed = data
    /\ tick_log = <<>>
    /\ thread_pc = [t \in Threads |-> "idle"]
    /\ thread_tick = [t \in Threads |-> None]
    /\ reader_pc = 0
    /\ mtf_data = EmptyDict
    /\ history = <<>>
    /\ commit_log = <<>>
    /\ last_quote_state = [bid |-> None, ask |-> None]
    /\ frame_log = <<>>
    /\ client = "unset"
    /\ realtime_client = "none"
    /\ transport = NotConnected
    /\ returned = <<>>

stopRest ==
    <<timeframes, data, data_lock, bookVars, cbVars, histVars, thread_tick, reader_pc,
      mtf_data, quoteVars, realtime_client>>

StartWhileNoStop ==
    \E answer \in Answers :
        /\ \A t \in Threads : thread_pc[t] = "idle"
        /\ Apply(start_realtime_feed(Engine, GoodToken, answer.connect, answer.partial,
                                     answer.subscribe).e)
        /\ UNCHANGED <<timeframes, data_lock, orderbook_bids, orderbook_asks, recent_trades,
                       orderbook_lock, cbVars, histVars, threadVars, quoteVars>>

\* line 515
StopFlag(t) ==
    /\ thread_pc[t] = "idle"
    /\ is_running' = FALSE
    /\ thread_pc' = [thread_pc EXCEPT ![t] = "flagged"]
    /\ UNCHANGED <<stopRest, client, transport>>

\* line 517
StopTest(t) ==
    /\ thread_pc[t] = "flagged"
    /\ thread_pc' = [thread_pc EXCEPT ![t] = IF client = "client" THEN "tested" ELSE "done"]
    /\ UNCHANGED <<stopRest, is_running, client, transport>>

\* line 518
StopDisconnect(t) ==
    /\ thread_pc[t] = "tested"
    /\ IF client = "client"
       THEN /\ transport' = [transport EXCEPT !.connected = FALSE, !.subscribed = FALSE,
                                              !.disconnects = @ + 1]
            /\ thread_pc' = [thread_pc EXCEPT ![t] = "disconnected"]
       ELSE /\ transport' = transport
            /\ thread_pc' = [thread_pc EXCEPT ![t] = "done"]
    /\ UNCHANGED <<stopRest, is_running, client>>

\* line 519
StopForget(t) ==
    /\ thread_pc[t] = "disconnected"
    /\ client' = "none"
    /\ thread_pc' = [thread_pc EXCEPT ![t] = "done"]
    /\ UNCHANGED <<stopRest, is_running, transport>>

StopReturn(t) ==
    /\ thread_pc[t] = "done"
    /\ thread_pc' = [thread_pc EXCEPT ![t] = "idle"]
    /\ UNCHANGED <<stopRest, is_running, client, transport>>

StopFlagStep == \E t \in Threads : StopFlag(t)
StopTestStep == \E t \in Threads : StopTest(t)
StopDisconnectStep == \E t \in Threads : StopDisconnect(t)
StopForgetStep == \E t \in Threads : StopForget(t)
StopReturnStep == \E t \in Threads : StopReturn(t)

NextStop ==
    \/ StartWhileNoStop
    \/ LifeTick
    \/ StopFlagStep
    \/ StopTestStep
    \/ StopDisconnectStep
    \/ StopForgetStep
    \/ StopReturnStep

SpecStop == InitStop /\ [][NextStop]_vars

\* a stop call has completed and none is under way
Stopped ==
    /\ \E t \in Threads : thread_pc[t] = "done"
    /\ \A t \in Threads : thread_pc[t] \in {"idle", "done"}

\* C25: after stop_realtime_feed, called once, again, on an engine never
\* started or from two threads at once, the engine is not running and holds
\* no client, and disconnect() was called on a client at most once.
C25_StopIdempotent ==
    /\ Stopped => ~is_running /\ client # "client" /\ ~transport.connected
    /\ transport.disconnects <= 1

\* supporting property (SpecStop): the state a completed stop leaves
StopLeavesStopped ==
    Stopped => ~is_running /\ client # "client" /\ ~transport.connected

\* supporting property (SpecLife): calls made one after the other
\* disconnect a client once
OneDisconnectInSequence == transport.disconnects <= 1


\* the call made last was a force_data_refresh on a running engine
RefreshedWhileRunning ==
    /\ returned # <<>>
    /\ returned.call = "force_data_refresh"
    /\ returned.was_running

\* every configured timeframe holds the rows of the warm-up and no others
OnlyWarmupBars(d) ==
    /\ DOMAIN d = RangeOf(timeframes)
    /\ \A tf \in DOMAIN d : d[tf] = HistoricalRows

\* C26: force_data_refresh on a running engine, when its initialize and its
\* start succeed, returns True with the engine running again on a new
\* connected and subscribed client and with every series made of the bars
\* of the new warm-up only; when it returns False no bar from before the
\* refresh is left either and the engine is not running.
C26_RefreshRestartsFromWarmup ==
    [][RefreshedWhileRunning' =>
          /\ returned'.value =>
                /\ is_running'
                /\ client' = "client"
                /\ transport' = Streaming
                /\ OnlyWarmupBars(data')
          /\ ~returned'.value => ~is_running'
          /\ \A tf \in DOMAIN data' : data'[tf] = HistoricalRows]_vars

\* a running engine whose series held bars built from ticks was refreshed
\* and runs again on the warm-up rows
C26_Witness ==
    /\ RefreshedWhileRunning
    /\ returned.value
    /\ \E tf \in DOMAIN returned.before : returned.before[tf] # HistoricalRows
    /\ is_running
    /\ OnlyWarmupBars(data)


(***************************************************************************)
(* SpecCallbacks: callbacks are registered on market_trade in any order    *)
(* (plain ones, one that raises, a coroutine function), the main loop is   *)
(* set or closed, and market_trade frames are dispatched.  frame_log holds *)
(* the frame dispatched last.                                              *)
(***************************************************************************)
InitCallbacks ==
    /\ timeframes = BarTimeframes
    /\ data = [tf \in RangeOf(BarTimeframes) |-> <<SeedBar(0)>>]
    /\ is_running = TRUE
    /\ contract_id = OwnContract
    /\ orderbook_bids = <<>>
    /\ orderbook_asks = <<>>
    /\ recent_trades = <<>>
    /\ orderbook_lock = "free"
    /\ data_lock = "free"
    /\ callbacks = [c \in Channels |-> <<>>]
    /\ received = [s \in Subscribers |-> <<>>]
    /\ main_loop \in {"none", "loop"}
    /\ seed = data
    /\ tick_log = <<>>
    /\ OneThreadIdle

callbacksRest ==
    <<barVars, bookVars, quoteVars, seed, tick_log, history, commit_log, returned,
      threadVars, lifeVars>>

\* lines 2442-2451
add_callback(event_type, callback) ==
    /\ callbacks' = [callbacks EXCEPT ![event_type] = Append(@, callback)]
    /\ UNCHANGED <<received, main_loop>>

\* lines 2459-2468
set_main_loop(loop) ==
    /\ main_loop' = loop
    /\ UNCHANGED <<callbacks, received>>

Register ==
    \E callback \in Subscribers :
        /\ callback \notin RangeOf(callbacks["market_trade"])
        /\ Len(callbacks["market_trade"]) < MaxQuotes + 1
        /\ add_callback("market_trade", callback)
        /\ UNCHANGED <<callbacksRest, frame_log>>

SetLoop ==
    /\ main_loop # "loop"
    /\ set_main_loop("loop")
    /\ UNCHANGED <<callbacksRest, frame_log>>

\* the loop is closed by its owner
CloseLoop ==
    /\ main_loop = "loop"
    /\ main_loop' = "closed"
    /\ UNCHANGED <<callbacks, received, callbacksRest, frame_log>>

DispatchTrade ==
    \E frame \in InboundTrades :
        /\ \A s \in Subscribers : Len(received[s]) < MaxQuotes
        /\ _on_market_trade(frame)
        /\ frame_log' = <<[channel |-> "market_trade", frame |-> frame]>>
        /\ UNCHANGED callbacksRest

NextCallbacks == Register \/ SetLoop \/ CloseLoop \/ DispatchTrade

SpecCallbacks == InitCallbacks /\ [][NextCallbacks]_vars

\* this step dispatches a market_trade frame
DispatchStep ==
    /\ frame_log' # <<>>
    /\ callbacks' = callbacks
    /\ main_loop' = main_loop

\* subscriber s is invoked with the frame as the nth of this event
InvokedAs(s, nth) ==
    /\ OneMore(s)
    /\ Last(received'[s]) =
          [channel |-> "market_trade", payload |-> frame_log'[1].frame, nth |-> nth]

EngineUntouched ==
    /\ data' = data
    /\ orderbook_bids' = orderbook_bids
    /\ orderbook_asks' = orderbook_asks
    /\ recent_trades' = recent_trades
    /\ is_running' = is_running

Runnable(subs) ==
    SelectSeq(subs, LAMBDA s : s \notin Coroutines \/ LoopAvailable)

get_current_price ==
    IF "15sec" \notin DOMAIN data THEN None
    ELSE IF Len(data["15sec"]) > 0 THEN Last(data["15sec"]).close
    ELSE None

(***************************************************************************)
(* SpecPrice: engines constructed with different sets of timeframes, each  *)
(* series seeded or holding an empty frame, ingesting ticks.               *)
(***************************************************************************)
PriceConfigs ==
    {<<"5sec", "1min">>, <<"15sec", "1min">>, <<"5sec", "15sec">>, <<"1min", "15sec">>}

InitPrice ==
    /\ timeframes \in PriceConfigs
    /\ data \in [RangeOf(timeframes) -> SeedSeries]
    /\ is_running = TRUE
    /\ contract_id = OwnContract
    /\ orderbook_bids = <<>>
    /\ orderbook_asks = <<>>
    /\ recent_trades = <<>>
    /\ orderbook_lock = "free"
    /\ data_lock = "free"
    /\ callbacks = [c \in Channels |-> <<>>]
    /\ received = [s \in Subscribers |-> <<>>]
    /\ main_loop = "none"
    /\ seed = data
    /\ tick_log = <<>>
    /\ OneThreadIdle

PriceTick ==
    \E tick \in Ticks :
        /\ _process_tick_data(tick)
        /\ BarVolumesBounded'
        /\ UNCHANGED <<bookVars, histVars, threadVars, quoteVars, lifeVars>>

NextPrice == PriceTick

SpecPrice == InitPrice /\ [][NextPrice]_vars

\* the length of a timeframe's bucket in seconds
SecondsOf(tf) ==
    IF TIMEFRAMES[tf].unit = 1 THEN TIMEFRAMES[tf].interval
    ELSE TIMEFRAMES[tf].interval * 60

\* the configured timeframe with the shortest bucket
Finest ==
    CHOOSE tf \in RangeOf(timeframes) :
        \A other \in RangeOf(timeframes) : SecondsOf(tf) <= SecondsOf(other)

\* C28: get_current_price() is the close of the last bar of the finest
\* configured timeframe, and no price only when that series has no bar.
C28_PriceOfFinestTimeframe ==
    get_current_price =
        IF data[Finest] = <<>> THEN None ELSE Last(data[Finest]).close

\* supporting property (SpecPrice): the same for the engines whose finest
\* timeframe is "15sec"
PriceOfFinest_When15sec ==
    Finest = "15sec" => C28_PriceOfFinestTimeframe


\* C29: in every state, right after warm-up as after any tick, each series
\* holds at most MaxBars bars.
C29_SeriesWithinCap ==
    \A tf \in DOMAIN data : Len(data[tf]) <= MaxBars

\* supporting property (SpecTicks): after a tick every series is within the
\* cap, and a series that was longer has lost its oldest bars
SeriesWithinCapAfterTick ==
    [][\A tf \in DOMAIN data :
          /\ Len(data'[tf]) <= MaxBars
          /\ Len(data[tf]) > MaxBars =>
                \E k \in 1..Len(data[tf]) :
                    \A i \in 1..(Len(data'[tf]) - 1) : data'[tf][i] = data[tf][k + i]]_vars


(***************************************************************************)
(* SpecReaders: thread t1 handles depth frames statement by statement and  *)
(* thread t2 calls the book API.  _on_market_depth holds orderbook_lock    *)
(* (an RLock) from line 701 to line 841: it sorts the entries of the frame *)
(* into bid, ask and trade updates, then writes the bid side (line 830),   *)
(* the ask side (line 834) and the tape (line 838); the market_depth       *)
(* callbacks run after the lock is released.  get_orderbook_snapshot,      *)
(* get_best_bid_ask and get_recent_trades read under the same lock (lines  *)
(* 1377, 1454, 1556).  thread_tick holds the frame t1 is handling and what *)
(* it computed from it, mtf_data what t2 got from its last call, history   *)
(* the book and the tape before the first frame and after each frame.      *)
(***************************************************************************)
\* faulty variant: the caller does not wait for the lock
MayEnter_Unlocked(owner, t) == TRUE

\* threading.RLock: free, or held by the caller
MayEnter(owner, t) == owner = "free" \/ owner = t

ReaderFrameData ==
    {<<[type |-> 2, price |-> 1, volume |-> 1], [type |-> 1, price |-> 2, volume |-> 1]>>,
     <<[type |-> 2, price |-> 1, volume |-> 0], [type |-> 1, price |-> 3, volume |-> 1],
       [type |-> 5, price |-> 3, volume |-> 1, timestamp |-> 0]>>,
     <<[type |-> 2, price |-> 2, volume |-> 1], [type |-> 1, price |-> 2, volume |-> 0],
       [type |-> 5, price |-> 2, volume |-> 2, timestamp |-> 1]>>}
ReaderFrames == [contract_id : {OwnContract}, data : ReaderFrameData]

Book == [bids |-> orderbook_bids, asks |-> orderbook_asks, trades |-> recent_trades]

InitReaders ==
    /\ timeframes = BarTimeframes
    /\ data = [tf \in RangeOf(BarTimeframes) |-> <<SeedBar(0)>>]
    /\ is_running = TRUE
    /\ contract_id = OwnContract
    /\ orderbook_bids = <<>>
    /\ orderbook_asks = <<>>
    /\ recent_trades = <<>>
    /\ orderbook_lock = "free"
    /\ data_lock = "free"
    /\ callbacks = [c \in Channels |-> <<>>]
    /\ received = [s \in Subscribers |-> <<>>]
    /\ main_loop = "none"
    /\ seed = data
    /\ tick_log = <<>>
    /\ thread_pc = [t \in Threads |-> "idle"]
    /\ thread_tick = [t \in Threads |-> None]
    /\ reader_pc = 0
    /\ mtf_data = EmptyDict
    /\ history = <<Book>>
    /\ commit_log = <<>>
    /\ last_quote_state = [bid |-> None, ask |-> None]
    /\ frame_log = <<>>
    /\ FeedStarted

readersRest ==
    <<barVars, contract_id, callbacks, main_loop, seed, tick_log, commit_log, frame_log,
      returned, reader_pc, quoteVars, lifeVars>>

\* lines 696-826: the lock is taken and the entries are sorted
DepthLock ==
    \E frame \in ReaderFrames :
        /\ thread_pc["t1"] = "idle"
        /\ Len(history) < MaxTicks + 1
        /\ frame.contract_id = contract_id
        /\ MayEnter(orderbook_lock, "t1")
        /\ orderbook_lock' = "t1"
        /\ thread_tick' = [thread_tick EXCEPT !["t1"] =
              [frame |-> frame,
               result |-> DepthResult(frame.data, orderbook_bids, orderbook_asks,
                                      recent_trades)]]
        /\ thread_pc' = [thread_pc EXCEPT !["t1"] = "bids"]
        /\ UNCHANGED <<readersRest, orderbook_bids, orderbook_asks, recent_trades,
                       received, mtf_data, history>>

\* lines 829-830
DepthBids ==
    /\ thread_pc["t1"] = "bids"
    /\ orderbook_bids' = thread_tick["t1"].result.bids
    /\ thread_pc' = [thread_pc EXCEPT !["t1"] = "asks"]
    /\ UNCHANGED <<readersRest, orderbook_asks, recent_trades, orderbook_lock,
                   received, thread_tick, mtf_data, history>>

\* lines 833-834
DepthAsks ==
    /\ thread_pc["t1"] = "asks"
    /\ orderbook_asks' = thread_tick["t1"].result.asks
    /\ thread_pc' = [thread_pc EXCEPT !["t1"] = "trades"]
    /\ UNCHANGED <<readersRest, orderbook_bids, recent_trades, orderbook_lock,
                   received, thread_tick, mtf_data, history>>

\* lines 837-841: the tape is written and the lock released
DepthTrades ==
    /\ thread_pc["t1"] = "trades"
    /\ recent_trades' = thread_tick["t1"].result.trades
    /\ orderbook_lock' = "free"
    /\ history' = Append(history, [Book EXCEPT !.trades = recent_trades'])
    /\ thread_pc' = [thread_pc EXCEPT !["t1"] = "callbacks"]
    /\ UNCHANGED <<readersRest, orderbook_bids, orderbook_asks, received, thread_tick,
                   mtf_data>>

\* lines 843-857
DepthCallbacks ==
    /\ thread_pc["t1"] = "callbacks"
    /\ received' = _trigger_callbacks(received, "market_depth", thread_tick["t1"].frame)
    /\ thread_tick' = [thread_tick EXCEPT !["t1"] = None]
    /\ thread_pc' = [thread_pc EXCEPT !["t1"] = "idle"]
    /\ UNCHANGED <<readersRest, orderbook_bids, orderbook_asks, recent_trades,
                   orderbook_lock, mtf_data, history>>

readerRest ==
    <<readersRest, orderbook_bids, orderbook_asks, recent_trades, orderbook_lock,
      received, thread_pc, thread_tick, history>>

\* lines 1366-1422, with levels at least the number of levels held
get_orderbook_snapshot ==
    /\ MayEnter(orderbook_lock, "t2")
    /\ mtf_data' = [api |-> "get_orderbook_snapshot",
                    bids |-> orderbook_bids, asks |-> orderbook_asks]
    /\ UNCHANGED readerRest

\* lines 1446-1487, called by a reader
ReadBestBidAsk ==
    /\ MayEnter(orderbook_lock, "t2")
    /\ mtf_data' = [api |-> "get_best_bid_ask",
                    best |-> get_best_bid_ask(orderbook_bids, orderbook_asks)]
    /\ UNCHANGED readerRest

\* lines 1545-1579, with count at least the number of trades held
get_recent_trades ==
    /\ MayEnter(orderbook_lock, "t2")
    /\ mtf_data' = [api |-> "get_recent_trades", trades |-> recent_trades]
    /\ UNCHANGED readerRest

NextReaders ==
    \/ DepthLock
    \/ DepthBids
    \/ DepthAsks
    \/ DepthTrades
    \/ DepthCallbacks
    \/ get_orderbook_snapshot
    \/ ReadBestBidAsk
    \/ get_recent_trades

SpecReaders == InitReaders /\ [][NextReaders]_vars

\* what the reader got is what the call yields on book h
ObservedIn(h) ==
    CASE mtf_data.api = "get_orderbook_snapshot" ->
            mtf_data.bids = h.bids /\ mtf_data.asks = h.asks
      [] mtf_data.api = "get_best_bid_ask" ->
            mtf_data.best = get_best_bid_ask(h.bids, h.asks)
      [] OTHER -> mtf_data.trades = h.trades

\* C30: what a reader of the book API gets is the book as it stood before
\* the first frame or after all the updates of some frame, never a book to
\* which a part of a frame has been applied.
C30_ReaderSeesWholeFrames ==
    mtf_data # EmptyDict =>
        \E i \in 1..Len(history) : ObservedIn(history[i])

\* a reader got a snapshot holding the bid and the ask of one frame while
\* the handler was at work on the next frame
C30_Witness ==
    /\ mtf_data # EmptyDict
    /\ mtf_data.api = "get_orderbook_snapshot"
    /\ mtf_data.bids # <<>>
    /\ mtf_data.asks # <<>>
    /\ Len(history) = 2
    /\ thread_pc["t1"] = "asks"


(***************************************************************************)
(* SpecMetrics: thread t1 handles depth frames as in SpecReaders and       *)
(* thread t2 calls get_advanced_market_metrics.  The method builds its     *)
(* dict one entry after the other (lines 2416-2436); each entry is a call  *)
(* of a method that takes orderbook_lock for itself and releases it on     *)
(* return, and analysis_summary reads len(self.recent_trades) without the  *)
(* lock.  The method itself holds no lock.  reader_pc is the number of     *)
(* entries evaluated so far (0 when no call is under way), mtf_data the    *)
(* entries: for each its key and the parts of the book and tape its method *)
(* read.                                                                   *)
(***************************************************************************)
\* lines 2417-2435: the keys in evaluation order, what each method reads
\* and whether it reads under orderbook_lock
MetricsEntries ==
    <<[key |-> "liquidity_analysis", reads |-> {"bids", "asks"}, locked |-> TRUE],
      [key |-> "order_clusters", reads |-> {"bids", "asks"}, locked |-> TRUE],
      [key |-> "iceberg_detection", reads |-> {"bids", "asks"}, locked |-> TRUE],
      [key |-> "cumulative_delta", reads |-> {"trades"}, locked |-> TRUE],
      [key |-> "market_imbalance", reads |-> {"bids", "asks", "trades"}, locked |-> TRUE],
      [key |-> "volume_profile", reads |-> {"trades"}, locked |-> TRUE],
      [key |-> "support_resistance", reads |-> {"bids", "asks", "trades"}, locked |-> TRUE],
      [key |-> "orderbook_snapshot", reads |-> {"bids", "asks"}, locked |-> TRUE],
      [key |-> "trade_flow", reads |-> {"trades"}, locked |-> TRUE],
      [key |-> "analysis_summary", reads |-> {"trades"}, locked |-> FALSE]>>

\* what a method reading the parts in reads gets from book
ReadBy(book, reads) ==
    [bids |-> IF "bids" \in reads THEN book.bids ELSE <<>>,
     asks |-> IF "asks" \in reads THEN book.asks ELSE <<>>,
     trades |-> IF "trades" \in reads THEN book.trades ELSE <<>>]

metricsRest ==
    <<barVars, bookVars, cbVars, seed, tick_log, commit_log, frame_log, returned,
      thread_pc, thread_tick, history, quoteVars, lifeVars>>

\* lines 2417-2435: the next entry is evaluated; the first one starts the dict
MetricsEntry ==
    /\ reader_pc < Len(MetricsEntries)
    /\ LET entry == MetricsEntries[reader_pc + 1]
           so_far == IF reader_pc = 0 THEN <<>> ELSE mtf_data
           got == ReadBy(Book, entry.reads)
       IN  /\ entry.locked => MayEnter(orderbook_lock, "t2")
           /\ mtf_data' = Append(so_far, [key |-> entry.key, bids |-> got.bids,
                                          asks |-> got.asks, trades |-> got.trades])
    /\ reader_pc' = reader_pc + 1
    /\ UNCHANGED metricsRest

\* line 2416: the dict is returned
MetricsReturn ==
    /\ reader_pc = Len(MetricsEntries)
    /\ reader_pc' = 0
    /\ UNCHANGED <<metricsRest, mtf_data>>

NextMetrics ==
    \/ DepthLock
    \/ DepthBids
    \/ DepthAsks
    \/ DepthTrades
    \/ DepthCallbacks
    \/ MetricsEntry
    \/ MetricsReturn

SpecMetrics == InitReaders /\ [][NextMetrics]_vars

\* every entry evaluated so far is what its method reads from book h
AllFrom(h) ==
    \A i \in 1..Len(mtf_data) :
        LET entry == MetricsEntries[i]
        IN  /\ mtf_data[i].key = entry.key
            /\ [bids |-> mtf_data[i].bids, asks |-> mtf_data[i].asks,
                trades |-> mtf_data[i].trades] = ReadBy(h, entry.reads)

\* C31: all the entries of one result of get_advanced_market_metrics are
\* evaluated from one state of the book and tape, the state before the
\* first frame or the state after some frame.
C31_MetricsFromOneState ==
    \E i \in 1..Len(history) : AllFrom(history[i])

\* a complete result was returned while frames were arriving and all its
\* entries are evaluated from the book after the first frame
MetricsFromOneState_Reached ==
    /\ reader_pc = 0
    /\ Len(mtf_data) = Len(MetricsEntries)
    /\ Len(history) = 3
    /\ history[2] # history[1]
    /\ AllFrom(history[2])


(***************************************************************************)
(* The seam between the warm-up rows and the live bars, under SpecLife.    *)
(***************************************************************************)
\* the step is the first tick handled by a running engine since the warm-up
FirstLiveTick ==
    /\ is_running
    /\ OnlyWarmupBars(data)
    /\ returned'.call = "tick"

\* the bucket of the current bar of timeframe tf in series d
CurrentBucket(d, tf) == Last(d[tf]).timestamp

\* C32: once the first live tick after warm-up and start has been ingested,
\* the current bar of every timeframe is in the last historical bucket or in
\* the bucket that follows it.
C32_NoGapAtSeam ==
    [][FirstLiveTick =>
          \A tf \in DOMAIN data' :
              CurrentBucket(data', tf) \in
                  {CurrentBucket(data, tf), CurrentBucket(data, tf) + SecondsOf(tf)}]_vars

\* what the code does at the seam: the current bar is in the last historical
\* bucket or in a later one, at a whole number of buckets from it
SeamBucketsAligned ==
    [][FirstLiveTick =>
          \A tf \in DOMAIN data' :
              /\ CurrentBucket(data', tf) >= CurrentBucket(data, tf)
              /\ (CurrentBucket(data', tf) - CurrentBucket(data, tf)) % SecondsOf(tf) = 0]_vars


(***************************************************************************)
(* SpecFaults: depth and quote frames of which some are malformed.  A      *)
(* price that is null or not a number makes float(price) raise: in         *)
(* _on_market_depth inside the loop over the entries (lines 708-826),      *)
(* before any side of the book is written; in _on_quote_update at line 557 *)
(* (bid), at line 559 (ask, after the bid was stored) or at line 579 (last *)
(* price of a trade update, after both sides were stored).  Both handlers  *)
(* run inside try/except Exception (lines 859-863 and 615-616), which logs *)
(* the error and returns.  frame_log holds the frames handled, in order,   *)
(* and whether each raised; returned says whether the exception of the     *)
(* frame handled last left the handler.  The transport thread calls the    *)
(* handlers one frame after the other and handles no frame once an         *)
(* exception has left a handler.                                           *)
(***************************************************************************)
\* faulty variant: the exception leaves the handler
Propagates_Uncaught(raised) == raised

\* lines 615-616 and 859-863: except Exception logs and returns
Propagates(raised) == FALSE

NotFloat(x) == x = None \/ x = NotANumber

\* lines 748-826: float(price) for a bid, an ask or a modification, and for
\* a trade with volume
EntryRaises(entry) ==
    \/ entry.type \in {1, 2, 9, 10} /\ NotFloat(entry.price)
    \/ entry.type = 5 /\ entry.volume > 0 /\ NotFloat(entry.price)

DepthRaises(frame) ==
    /\ frame.contract_id = contract_id
    /\ \E i \in 1..Len(frame.data) : EntryRaises(frame.data[i])

\* lines 546-579: the conversions of the quote handler
QuoteRaises(frame) ==
    /\ frame.contract_id = contract_id
    /\ \/ PyOr(frame.data.bestBid, frame.data.bid) = NotANumber
       \/ PyOr(frame.data.bestAsk, frame.data.ask) = NotANumber
       \/ /\ IsTradeQuote(frame.data)
          /\ PyOr(PyOr(frame.data.lastPrice, frame.data.last), frame.data.price) = NotANumber

\* lines 556-560: the quote state left behind by a frame that raises
QuoteStateRaised(state, quote_data) ==
    LET current_bid == PyOr(quote_data.bestBid, quote_data.bid)
        current_ask == PyOr(quote_data.bestAsk, quote_data.ask)
    IN  IF current_bid = NotANumber THEN state
        ELSE IF current_ask = NotANumber
        THEN [state EXCEPT !.bid = IF current_bid # None THEN current_bid ELSE @]
        ELSE QuoteStateAfter(state, quote_data)

FaultyDepth ==
    [contract_id : {OwnContract},
     data : {<<[type |-> 2, price |-> 1, volume |-> 1]>>,
             <<[type |-> 1, price |-> 2, volume |-> 1]>>,
             <<[type |-> 2, price |-> 1, volume |-> 2],
               [type |-> 1, price |-> None, volume |-> 1]>>,
             <<[type |-> 2, price |-> NotANumber, volume |-> 1]>>,
             <<[type |-> 5, price |-> None, volume |-> 1, timestamp |-> 0]>>}]
    \cup [contract_id : {OtherContract},
          data : {<<[type |-> 2, price |-> NotANumber, volume |-> 1]>>}]

FaultyQuotes ==
    [contract_id : {OwnContract},
     data : {[NoQuote EXCEPT !.bestBid = 2],
             [NoQuote EXCEPT !.bestAsk = 4],
             [NoQuote EXCEPT !.bestBid = NotANumber],
             [NoQuote EXCEPT !.bestBid = 2, !.bestAsk = NotANumber],
             [NoQuote EXCEPT !.lastPrice = NotANumber],
             [NoQuote EXCEPT !.bestAsk = 4, !.lastPrice = NotANumber, !.volume = 1]}]

\* the transport thread is alive
Receiving == IF returned = <<>> THEN TRUE ELSE ~returned.propagated

faultsRest == <<seed, tick_log, history, commit_log, threadVars, lifeVars>>

FaultyDepthFrame ==
    \E frame \in FaultyDepth :
        /\ Receiving
        /\ Len(frame_log) < MaxQuotes + 1
        /\ IF DepthRaises(frame)
           THEN UNCHANGED <<bookVars, cbVars>>
           ELSE _on_market_depth(frame)
        /\ frame_log' = Append(frame_log, [channel |-> "market_depth", frame |-> frame,
                                           raised |-> DepthRaises(frame)])
        /\ returned' = [call |-> "_on_market_depth",
                        propagated |-> Propagates(DepthRaises(frame))]
        /\ UNCHANGED <<barVars, quoteVars, faultsRest>>

FaultyQuoteFrame ==
    \E frame \in FaultyQuotes :
        /\ Receiving
        /\ Len(frame_log) < MaxQuotes + 1
        /\ IF QuoteRaises(frame)
           THEN /\ last_quote_state' = QuoteStateRaised(last_quote_state, frame.data)
                /\ UNCHANGED <<barVars, cbVars>>
           ELSE _on_quote_update(frame, 4)
        /\ frame_log' = Append(frame_log, [channel |-> "quote_update", frame |-> frame,
                                           raised |-> QuoteRaises(frame)])
        /\ returned' = [call |-> "_on_quote_update",
                        propagated |-> Propagates(QuoteRaises(frame))]
        /\ UNCHANGED <<bookVars, faultsRest>>

NextFaults == FaultyDepthFrame \/ FaultyQuoteFrame

SpecFaults == InitFrames /\ [][NextFaults]_vars

\* the step handles a frame that raises
RaisedStep == frame_log' # frame_log /\ Last(frame_log').raised

\* the step handles a well-formed frame of this contract right after a frame
\* that raised
NextWellFormedStep ==
    /\ frame_log' # frame_log
    /\ frame_log # <<>>
    /\ Last(frame_log).raised
    /\ ~Last(frame_log').raised
    /\ Last(frame_log').frame.contract_id = contract_id

\* the frame of the step had the effect of its handler on a well-formed frame
ProcessedNormally ==
    LET f == Last(frame_log').frame IN
    IF Last(frame_log').channel = "market_depth"
    THEN LET r == DepthResult(f.data, orderbook_bids, orderbook_asks, recent_trades) IN
         /\ orderbook_bids' = r.bids
         /\ orderbook_asks' = r.asks
         /\ recent_trades' = r.trades
         /\ Len(received'["s1"]) = Len(received["s1"]) + 1
         /\ Last(received'["s1"]).channel = "market_depth"
    ELSE /\ last_quote_state' = QuoteStateAfter(last_quote_state, f.data)
         /\ EmitsQuoteUpdate(QuoteTickPrice(last_quote_state', f.data), last_quote_state')
               => /\ Len(received'["s1"]) = Len(received["s1"]) + 1
                  /\ Last(received'["s1"]).channel = "quote_update"

TickEnter(t, tick) ==
    /\ thread_pc[t] = "idle"
    /\ is_running
    /\ MayEnter(data_lock, t)
    /\ data_lock' = t
    /\ thread_pc' = [thread_pc EXCEPT ![t] = "fanout"]
    /\ thread_tick' = [thread_tick EXCEPT ![t] = tick]
    /\ UNCHANGED <<timeframes, data, is_running, cbVars, reader_pc, mtf_data>>

\* lines 1211-1212: the loop over the timeframes, inside the with block
TickFanOut(t) ==
    /\ thread_pc[t] = "fanout"
    /\ LET r == FanOut(timeframes, data, received, thread_tick[t]) IN
         /\ data' = r.data
         /\ received' = r.received
    /\ thread_pc' = [thread_pc EXCEPT ![t] = "release"]
    /\ UNCHANGED <<timeframes, is_running, data_lock, callbacks, main_loop, thread_tick,
                   reader_pc, mtf_data>>

\* line 1212: the end of the with block
TickRelease(t) ==
    /\ thread_pc[t] = "release"
    /\ data_lock' = "free"
    /\ thread_pc' = [thread_pc EXCEPT ![t] = "dispatch"]
    /\ UNCHANGED <<timeframes, data, is_running, cbVars, thread_tick, reader_pc, mtf_data>>

InitDispatch ==
    /\ timeframes = BarTimeframes
    /\ data = [tf \in RangeOf(BarTimeframes) |-> <<SeedBar(0)>>]
    /\ is_running = TRUE
    /\ contract_id = OwnContract
    /\ orderbook_bids = <<>>
    /\ orderbook_asks = <<>>
    /\ recent_trades = <<>>
    /\ orderbook_lock = "free"
    /\ data_lock = "free"
    /\ callbacks = [c \in Channels |->
                       IF c \in {"data_update", "market_depth"} THEN <<"s1">>
                       ELSE IF c = "new_bar" THEN <<"s2">> ELSE <<>>]
    /\ received = [s \in Subscribers |-> <<>>]
    /\ main_loop = "none"
    /\ seed = data
    /\ tick_log = <<>>
    /\ OneThreadIdle
    /\ FeedStarted

EnterTick ==
    \E tick \in QuoteTicks :
        /\ Len(commit_log) < MaxTicks
        /\ TickEnter("t2", tick)
        /\ commit_log' = Append(commit_log, TickPayload(tick))
        /\ UNCHANGED <<bookVars, seed, tick_log, history, frame_log, returned, quoteVars,
                       lifeVars>>

FanOutTick == TickFanOut("t2") /\ UNCHANGED <<bookVars, histVars, quoteVars, lifeVars>>

ReleaseTick == TickRelease("t2") /\ UNCHANGED <<bookVars, histVars, quoteVars, lifeVars>>

NextDispatch ==
    \/ EnterTick
    \/ FanOutTick
    \/ ReleaseTick
    \/ DispatchTick
    \/ DepthLock
    \/ DepthBids
    \/ DepthAsks
    \/ DepthTrades
    \/ DepthCallbacks

SpecDispatch == InitDispatch /\ [][NextDispatch]_vars

\* the channels of the events subscribers are invoked with in this step
ChannelsInvoked ==
    {ch \in Channels :
        \E s \in Subscribers :
            Len(SelectSeq(received'[s], LAMBDA m : m.channel = ch))
                # Len(SelectSeq(received[s], LAMBDA m : m.channel = ch))}

\* the thread that takes this step
Stepping(t) == thread_pc'[t] # thread_pc[t]

\* thread t holds none of the two locks
HoldsNoLock(t) == data_lock # t /\ orderbook_lock # t

\* C34: a thread that invokes a subscriber of any channel holds neither
\* data_lock nor orderbook_lock while it does.
C34_DispatchOutsideLocks ==
    [][\A t \in Threads :
          Stepping(t) /\ ChannelsInvoked # {} => HoldsNoLock(t)]_vars

\* what holds: data_update and market_depth subscribers are invoked with no
\* lock held
DispatchOutsideLocks_ButNewBar ==
    [][\A t \in Threads :
          Stepping(t) /\ ChannelsInvoked \ {"new_bar"} # {} => HoldsNoLock(t)]_vars


(***************************************************************************)
(* SpecQuoteRace: _on_quote_update on two transport threads.  The handler  *)
(* takes no lock before it reaches _process_tick_data.  __init__ does not  *)
(* create _last_quote_state: the handler tests hasattr (line 550) and      *)
(* assigns a new dict with both sides None when the test fails (lines      *)
(* 551-554), stores the bid (line 558) and the ask (line 560) the frame    *)
(* carries, reads both sides back (lines 563-564) and goes on to the tick  *)
(* and to quote_update.  thread_tick holds the frame a thread handles and  *)
(* the outcome of its hasattr test; frame_log holds the frames whose       *)
(* handler has returned.                                                   *)
(***************************************************************************)
\* the manager has no attribute _last_quote_state
NoQuoteState == [bid |-> Unsupported, ask |-> Unsupported]

\* line 550: if not hasattr(self, "_last_quote_state")
MustCreate(has_state) == ~has_state

RaceQuotes ==
    [contract_id : {OwnContract},
     data : {[NoQuote EXCEPT !.bestBid = 2], [NoQuote EXCEPT !.bestAsk = 4],
             [NoQuote EXCEPT !.bestBid = 3, !.bestAsk = 5]}]

InitQuoteRace ==
    /\ timeframes = BarTimeframes
    /\ data = [tf \in RangeOf(BarTimeframes) |-> <<SeedBar(0)>>]
    /\ is_running = TRUE
    /\ contract_id = OwnContract
    /\ orderbook_bids = <<>>
    /\ orderbook_asks = <<>>
    /\ recent_trades = <<>>
    /\ orderbook_lock = "free"
    /\ data_lock = "free"
    /\ callbacks = [c \in Channels |->
                       CASE c = "data_update" -> <<"s1">>
                         [] c = "quote_update" -> <<"s2">>
                         [] OTHER -> <<>>]
    /\ received = [s \in Subscribers |-> <<>>]
    /\ main_loop = "none"
    /\ seed = data
    /\ tick_log = <<>>
    /\ thread_pc = [t \in Threads |-> "idle"]
    /\ thread_tick = [t \in Threads |-> None]
    /\ reader_pc = 0
    /\ mtf_data = EmptyDict
    /\ history = <<>>
    /\ commit_log = <<>>
    /\ last_quote_state = NoQuoteState
    /\ frame_log = <<>>
    /\ FeedStarted

raceRest ==
    <<bookVars, seed, tick_log, history, commit_log, returned, reader_pc, mtf_data, lifeVars>>

\* lines 537-550: the frame is for this contract; the hasattr test
QuoteTest(t, frame) ==
    /\ thread_pc[t] = "idle"
    /\ frame.contract_id = contract_id
    /\ thread_tick' = [thread_tick EXCEPT ![t] =
          [frame |-> frame, has_state |-> last_quote_state # NoQuoteState]]
    /\ thread_pc' = [thread_pc EXCEPT ![t] = "tested"]
    /\ UNCHANGED <<barVars, cbVars, quoteVars, frame_log, raceRest>>

\* lines 551-554
QuoteCreate(t) ==
    /\ thread_pc[t] = "tested"
    /\ last_quote_state' = IF MustCreate(thread_tick[t].has_state)
                           THEN [bid |-> None, ask |-> None]
                           ELSE last_quote_state
    /\ thread_pc' = [thread_pc EXCEPT ![t] = "created"]
    /\ UNCHANGED <<barVars, cbVars, thread_tick, frame_log, raceRest>>

\* lines 557-558
QuoteStoreBid(t) ==
    /\ thread_pc[t] = "created"
    /\ LET current_bid == PyOr(thread_tick[t].frame.data.bestBid, thread_tick[t].frame.data.bid)
       IN  last_quote_state' = IF current_bid # None
                               THEN [last_quote_state EXCEPT !.bid = current_bid]
                               ELSE last_quote_state
    /\ thread_pc' = [thread_pc EXCEPT ![t] = "bid"]
    /\ UNCHANGED <<barVars, cbVars, thread_tick, frame_log, raceRest>>

\* lines 559-560
QuoteStoreAsk(t) ==
    /\ thread_pc[t] = "bid"
    /\ LET current_ask == PyOr(thread_tick[t].frame.data.bestAsk, thread_tick[t].frame.data.ask)
       IN  last_quote_state' = IF current_ask # None
                               THEN [last_quote_state EXCEPT !.ask = current_ask]
                               ELSE last_quote_state
    /\ thread_pc' = [thread_pc EXCEPT ![t] = "ask"]
    /\ UNCHANGED <<barVars, cbVars, thread_tick, frame_log, raceRest>>

\* lines 563-613: both sides are read back, the tick is processed and
\* quote_update triggered
QuoteFinish(t) ==
    /\ thread_pc[t] = "ask"
    /\ LET frame == thread_tick[t].frame
           state == last_quote_state
           price == QuoteTickPrice(state, frame.data)
           tick == [timestamp |-> 4, price |-> price,
                    volume |-> QuoteTickVolume(frame.data, IsTradeQuote(frame.data))]
           fanned == FanOut(timeframes, data, received, tick)
           ticked == IF price = None \/ ~is_running
                     THEN [data |-> data, received |-> received]
                     ELSE [data |-> fanned.data,
                           received |-> _trigger_callbacks(fanned.received, "data_update",
                                            TickPayload(tick))]
       IN  /\ data' = ticked.data
           /\ received' = IF EmitsQuoteUpdate(price, state)
                          THEN _trigger_callbacks(ticked.received, "quote_update",
                                   [contract_id |-> frame.contract_id,
                                    data |-> [bid |-> state.bid, ask |-> state.ask]])
                          ELSE ticked.received
           /\ frame_log' = Append(frame_log, [frame |-> frame, now |-> 4])
    /\ thread_pc' = [thread_pc EXCEPT ![t] = "idle"]
    /\ thread_tick' = [thread_tick EXCEPT ![t] = None]
    /\ UNCHANGED <<timeframes, is_running, data_lock, callbacks, main_loop, quoteVars,
                   raceRest>>

\* the frames taken up so far, handled or in hand
TakenUp == Len(frame_log) + Cardinality({t \in Threads : thread_pc[t] # "idle"})

QuoteTestStep ==
    \E t \in Threads, frame \in RaceQuotes : TakenUp < MaxQuotes + 1 /\ QuoteTest(t, frame)
QuoteCreateStep == \E t \in Threads : QuoteCreate(t)
QuoteStoreBidStep == \E t \in Threads : QuoteStoreBid(t)
QuoteStoreAskStep == \E t \in Threads : QuoteStoreAsk(t)
QuoteFinishStep == \E t \in Threads : QuoteFinish(t)

NextQuoteRace ==
    \/ QuoteTestStep
    \/ QuoteCreateStep
    \/ QuoteStoreBidStep
    \/ QuoteStoreAskStep
    \/ QuoteFinishStep

SpecQuoteRace == InitQuoteRace /\ [][NextQuoteRace]_vars

\* the values of a side carried by the frames handled or in hand
CarriedSoFar(side) ==
    {Carried(frame_log[i].frame.data, side) : i \in 1..Len(frame_log)}
    \cup {Carried(thread_tick[t].frame.data, side) :
             t \in {u \in Threads : thread_pc[u] # "idle"}}

\* a frame whose handler has returned carried the side
SideProcessed(side) ==
    \E i \in 1..Len(frame_log) : Carried(frame_log[i].frame.data, side) # None

SideOf(state, side) == IF side = "bid" THEN state.bid ELSE state.ask

\* C35: under any interleaving of quote handlers on several transport
\* threads, once the handler of a frame carrying a bid (an ask) has returned
\* the quote state holds a bid (an ask), and it is one that a frame carried.
C35_QuoteSideNeverLost ==
    \A side \in {"bid", "ask"} :
        SideProcessed(side) =>
            /\ SideOf(last_quote_state, side) # None
            /\ SideOf(last_quote_state, side) \in CarriedSoFar(side)

\* what holds once the attribute exists: a side a frame carried stays known
QuoteSideKept_OnceCreated ==
    [][last_quote_state # NoQuoteState /\ (\A t \in Threads : thread_pc[t] # "tested") =>
          \A side \in {"bid", "ask"} :
              SideOf(last_quote_state, side) # None
                  => SideOf(last_quote_state', side) # None]_vars


(***************************************************************************)
(* SpecLocks: the two locks under three threads.  t1 handles depth frames  *)
(* (orderbook_lock, lines 701-841), t2 handles ticks (data_lock, lines     *)
(* 1210-1212) and t3 calls get_statistics, which reads the bars inside     *)
(* `with self.data_lock` (lines 2504-2519), leaves that block and reads    *)
(* the book inside `with self.orderbook_lock` (lines 2521-2542).  new_bar  *)
(* is triggered from inside the fan-out; its subscriber here asks for the  *)
(* best bid and ask (get_best_bid_ask, lock at line 1454) before it        *)
(* returns, on the thread and under the data_lock of the tick.  No block   *)
(* under orderbook_lock calls a method that takes data_lock or triggers a  *)
(* callback.  reader_pc is the block get_statistics is in: 0 outside the   *)
(* call, 1 the bars block, 2 the book block.                               *)
(***************************************************************************)
\* faulty variant: the book block is entered first and encloses the bars block
StatsHolds_BookFirst(block) ==
    CASE block = 1 -> {"orderbook_lock"}
      [] block = 2 -> {"orderbook_lock", "data_lock"}
      [] OTHER -> {}

\* lines 2504 and 2521: the locks get_statistics holds in each block
StatsHolds(block) ==
    CASE block = 1 -> {"data_lock"}
      [] block = 2 -> {"orderbook_lock"}
      [] OTHER -> {}

StatsNeeds(block) == StatsHolds((block + 1) % 3) \ StatsHolds(block)
StatsDrops(block) == StatsHolds(block) \ StatsHolds((block + 1) % 3)

locksRest == <<contract_id, orderbook_bids, orderbook_asks, recent_trades, histVars,
               quoteVars, lifeVars>>

\* lines 2495-2543: get_statistics moves on to its next block; the dict it
\* builds is local to the call
StatsStep ==
    /\ "data_lock" \in StatsNeeds(reader_pc) => MayEnter(data_lock, "t3")
    /\ "orderbook_lock" \in StatsNeeds(reader_pc) => MayEnter(orderbook_lock, "t3")
    /\ data_lock' = IF "data_lock" \in StatsNeeds(reader_pc) THEN "t3"
                    ELSE IF "data_lock" \in StatsDrops(reader_pc) THEN "free"
                    ELSE data_lock
    /\ orderbook_lock' = IF "orderbook_lock" \in StatsNeeds(reader_pc) THEN "t3"
                         ELSE IF "orderbook_lock" \in StatsDrops(reader_pc) THEN "free"
                         ELSE orderbook_lock
    /\ reader_pc' = (reader_pc + 1) % 3
    /\ UNCHANGED <<timeframes, data, is_running, cbVars, thread_pc, thread_tick, mtf_data,
                   locksRest>>

LockTicks == [timestamp : {5, 60}, price : {1}, volume : {0}]

LockedTickEnter ==
    \E tick \in LockTicks :
        /\ Len(commit_log) < MaxTicks
        /\ TickEnter("t2", tick)
        /\ commit_log' = Append(commit_log, TickPayload(tick))
        /\ UNCHANGED <<bookVars, seed, tick_log, history, frame_log, returned, quoteVars,
                       lifeVars>>

\* lines 1211-1212 and 1095-1102: the fan-out; the thread is inside the
\* new_bar subscriber next when one was invoked
LockedFanOut ==
    /\ thread_pc["t2"] = "fanout"
    /\ LET r == FanOut(timeframes, data, received, thread_tick["t2"]) IN
         /\ data' = r.data
         /\ received' = r.received
         /\ thread_pc' = [thread_pc EXCEPT !["t2"] =
               IF r.received # received THEN "new_bar" ELSE "release"]
    /\ UNCHANGED <<timeframes, is_running, data_lock, callbacks, main_loop, thread_tick,
                   reader_pc, mtf_data, bookVars, histVars, quoteVars, lifeVars>>

\* line 1454, called from the new_bar subscriber
NewBarQueryEnter ==
    /\ thread_pc["t2"] = "new_bar"
    /\ MayEnter(orderbook_lock, "t2")
    /\ orderbook_lock' = "t2"
    /\ thread_pc' = [thread_pc EXCEPT !["t2"] = "best_bid_ask"]
    /\ UNCHANGED <<barVars, cbVars, thread_tick, reader_pc, mtf_data, locksRest>>

\* line 1479: the end of the with block; the subscriber returns
NewBarQueryLeave ==
    /\ thread_pc["t2"] = "best_bid_ask"
    /\ orderbook_lock' = "free"
    /\ thread_pc' = [thread_pc EXCEPT !["t2"] = "release"]
    /\ UNCHANGED <<barVars, cbVars, thread_tick, reader_pc, mtf_data, locksRest>>

NextLocks ==
    \/ LockedTickEnter
    \/ LockedFanOut
    \/ NewBarQueryEnter
    \/ NewBarQueryLeave
    \/ ReleaseTick
    \/ DispatchTick
    \/ DepthLock
    \/ DepthBids
    \/ DepthAsks
    \/ DepthTrades
    \/ DepthCallbacks
    \/ StatsStep

SpecLocks == InitDispatch /\ [][NextLocks]_vars

LockHolders == {"t1", "t2", "t3"}

\* the thread is inside a call and its next statement takes the lock
WaitsFor(t, lock) ==
    CASE t = "t2" -> lock = "orderbook_lock" /\ thread_pc["t2"] = "new_bar"
      [] t = "t3" -> reader_pc # 0 /\ lock \in StatsNeeds(reader_pc)
      [] OTHER -> FALSE

HolderOf(lock) == IF lock = "data_lock" THEN data_lock ELSE orderbook_lock

\* each of two threads holds the lock the other one waits for
Deadlocked ==
    \E t, u \in LockHolders :
        /\ t # u
        /\ HolderOf("data_lock") = t /\ WaitsFor(t, "orderbook_lock")
        /\ HolderOf("orderbook_lock") = u /\ WaitsFor(u, "data_lock")

\* C36: no thread takes data_lock while it holds orderbook_lock, so that
\* whenever a thread holds both it took data_lock first, and no two threads
\* ever wait for each other's lock.
C36_BarsLockBeforeBookLock ==
    /\ [][\A t \in LockHolders :
             data_lock' = t /\ data_lock # t => orderbook_lock # t]_vars
    /\ []~Deadlocked

\* the tick thread holds both locks, data_lock taken first, after the depth
\* thread released orderbook_lock
C36_Witness ==
    /\ data_lock = "t2"
    /\ orderbook_lock = "t2"
    /\ thread_pc["t1"] = "callbacks"
    /\ reader_pc = 0
    /\ Len(commit_log) = MaxTicks


(***************************************************************************)
(* SpecWarmup: initialize, one call of the historical source per step.     *)
(* For each configured timeframe, in order, `for attempt in                *)
(* range(max_retries)` (line 309) calls project_x.get_data; a non-empty    *)
(* answer breaks out of the loop (line 330), an empty answer or an         *)
(* exception goes on to the next attempt (lines 331-351).  After the loop  *)
(* the rows are stored (line 369), or False is returned when there are     *)
(* none (line 382).  After the last timeframe the contract is looked up    *)
(* (lines 385-391).  The source answers every call: with rows ("data"),    *)
(* with nothing ("empty") or with an exception ("raise").  returned is the *)
(* call under way or made last: the index of the timeframe being loaded,   *)
(* the attempts made for it, the answers received per timeframe and the    *)
(* status, "running" until initialize returns "True" or "False".           *)
(***************************************************************************)
\* faulty variant: the loop goes on until the source answers with rows
MoreAttempts_UntilData(attempt) == TRUE

\* line 309: for attempt in range(max_retries)
MoreAttempts(attempt) == attempt < MaxRetries

SourceAnswers == {"data", "empty", "raise"}

InitializeRunning == IF returned = <<>> THEN FALSE ELSE returned.status = "running"

warmupRest ==
    <<timeframes, is_running, data_lock, orderbook_bids, orderbook_asks, recent_trades,
      orderbook_lock, cbVars, seed, tick_log, history, commit_log, frame_log, threadVars,
      quoteVars, lifeVars>>

\* lines 277-293: initialize is called
WarmupBegin ==
    /\ ~InitializeRunning
    /\ returned' = [call |-> "initialize", tf |-> 1, attempt |-> 0,
                    answers |-> [i \in 1..Len(timeframes) |-> <<>>],
                    status |-> "running"]
    /\ UNCHANGED <<data, contract_id, warmupRest>>

\* lines 309-382: one attempt for the timeframe being loaded
WarmupFetch ==
    \E answer \in SourceAnswers :
        /\ InitializeRunning
        /\ returned.tf <= Len(timeframes)
        /\ MoreAttempts(returned.attempt)
        /\ LET tf_key == timeframes[returned.tf]
               answers == [returned.answers EXCEPT ![returned.tf] = Append(@, answer)]
           IN  IF answer = "data"
               THEN /\ data' = [tf \in DOMAIN data \cup {tf_key} |->
                                   IF tf = tf_key THEN HistoricalRows ELSE data[tf]]
                    /\ returned' = [returned EXCEPT !.answers = answers,
                                                    !.tf = @ + 1, !.attempt = 0]
               ELSE /\ data' = data
                    /\ returned' = [returned EXCEPT
                          !.answers = answers,
                          !.attempt = @ + 1,
                          !.status = IF MoreAttempts(returned.attempt + 1)
                                     THEN "running" ELSE "False"]
        /\ UNCHANGED <<contract_id, warmupRest>>

\* lines 385-394: the contract is looked up and initialize returns
WarmupContract ==
    \E instrument \in Instruments :
        /\ InitializeRunning
        /\ returned.tf = Len(timeframes) + 1
        /\ contract_id' = IF instrument # NoContract THEN instrument ELSE contract_id
        /\ returned' = [returned EXCEPT
              !.status = IF instrument # NoContract THEN "True" ELSE "False"]
        /\ UNCHANGED <<data, warmupRest>>

NextWarmup == WarmupBegin \/ WarmupFetch \/ WarmupContract

SpecWarmup == InitLife /\ [][NextWarmup]_vars /\ WF_vars(NextWarmup)

\* no configured timeframe was asked for more than three times, and none
\* after it had answered with rows
FetchesBounded ==
    \A i \in 1..Len(returned.answers) :
        /\ Len(returned.answers[i]) <= 3
        /\ \A k \in 1..Len(returned.answers[i]) - 1 : returned.answers[i][k] # "data"

\* some timeframe was asked three times and never answered with rows
FetchExhausted(i) ==
    /\ Len(returned.answers[i]) = 3
    /\ \A k \in 1..3 : returned.answers[i][k] # "data"

\* C37: initialize asks the historical source at most 3 times per
\* timeframe and not again once it answered with rows; when a timeframe got
\* no rows in 3 attempts initialize has returned False and the timeframes
\* after it were not asked; and every call of initialize returns.
C37_InitializeTerminates ==
    /\ [](returned # <<>> =>
             /\ FetchesBounded
             /\ \A i \in 1..Len(returned.answers) :
                   FetchExhausted(i) =>
                       /\ returned.status = "False"
                       /\ \A j \in (i + 1)..Len(returned.answers) :
                             returned.answers[j] = <<>>)
    /\ (InitializeRunning ~> ~InitializeRunning)

\* initialize returned False after the first timeframe answered with rows
\* at the second attempt and the second timeframe never did
C37_Witness ==
    /\ returned # <<>>
    /\ returned.status = "False"
    /\ returned.answers[1] = <<"empty", "data">>
    /\ returned.answers[2] = <<"raise", "empty", "raise">>


(***************************************************************************)
(* SpecInflight: stop_realtime_feed, statement by statement as in          *)
(* SpecStop, while thread t2 handles ticks as in SpecDispatch.  The tick   *)
(* handler reads is_running once, at line 1202, before it takes data_lock; *)
(* stop_realtime_feed sets the flag at line 515 and takes no lock.  The    *)
(* engine starts running and is not started again.                         *)
(***************************************************************************)
NextInflight ==
    \/ EnterTick
    \/ FanOutTick
    \/ ReleaseTick
    \/ DispatchTick
    \/ StopFlagStep
    \/ StopTestStep
    \/ StopDisconnectStep
    \/ StopForgetStep
    \/ StopReturnStep

SpecInflight == InitDispatch /\ [][NextInflight]_vars

\* the thread is inside stop_realtime_feed
InStop(t) == thread_pc[t] \in {"flagged", "tested", "disconnected", "done"}

\* a call of stop_realtime_feed has returned and none is under way
StopHasReturned == ~is_running /\ \A t \in Threads : ~InStop(t)

\* C38: once stop_realtime_feed has returned no bar series changes, a tick
\* handler in flight on another thread at the time of the stop included;
\* and no tick handler goes past its running check while is_running is
\* False.
C38_NoBarChangeAfterStop ==
    [][/\ StopHasReturned => data' = data
       /\ ~is_running => \A t \in Threads :
                             thread_pc[t] = "idle" => thread_pc'[t] # "fanout"]_vars

\* what holds: a tick handler that starts after the flag was cleared
\* changes no bar
NoTickStartsAfterStop ==
    [][~is_running =>
          \A t \in Threads : thread_pc[t] = "idle" => thread_pc'[t] # "fanout"]_vars


\* the step is a call of force_data_refresh
RefreshStep == returned' # <<>> /\ returned'.call = "force_data_refresh"

\* C39 (SpecLife): whenever force_data_refresh returns False the engine is
\* not running afterwards, and whenever it returns True is_running has the
\* value it had before the call.
C39_RefreshOutcomeFixesRunning ==
    [][RefreshStep =>
          /\ ~returned'.value => ~is_running'
          /\ returned'.value => is_running' = is_running]_vars

\* an engine that was not running was refreshed with success: its series
\* hold the warm-up rows and it is still not running
C39_Witness ==
    /\ returned # <<>>
    /\ returned.call = "force_data_refresh"
    /\ returned.value
    /\ ~returned.was_running
    /\ ~is_running
    /\ OnlyWarmupBars(data)


(***************************************************************************)
(* SpecRemove: market_trade frames are dispatched to handlers that may     *)
(* call remove_callback on the channel while the dispatch is under way.    *)
(* _trigger_callbacks iterates self.callbacks[event_type] itself (line     *)
(* 2472), so the loop reads the list as the handlers leave it: the         *)
(* iterator keeps a position, and the next callback is the element at the  *)
(* next position of the list as it is then.  What each handler removes is  *)
(* an input of the dispatch; a coroutine function is scheduled on the loop *)
(* and removes nothing during the dispatch.  The main loop is set or not   *)
(* from the start.                                                         *)
(***************************************************************************)
\* list.remove: the first occurrence is taken out
RemoveFirst(subs, callback) ==
    LET k == CHOOSE i \in 1..Len(subs) :
                 subs[i] = callback /\ \A j \in 1..(i - 1) : subs[j] # callback
    IN  SubSeq(subs, 1, k - 1) \o SubSeq(subs, k + 1, Len(subs))

\* lines 2453-2457, on the list of one channel
remove_callback(subs, callback) ==
    IF callback \in RangeOf(subs) THEN RemoveFirst(subs, callback) ELSE subs

NoRemoval == "none"

\* what the handlers do when invoked: NoRemoval, or the subscriber whose
\* callback they remove
HandlerRemovals == [Subscribers \ Coroutines -> Subscribers \cup {NoRemoval}]

\* lines 2470-2492 with the list read at every step of the loop; i is the
\* position of the iterator
RECURSIVE DeliverLive(_, _, _, _, _, _)
DeliverLive(rcv, subs, i, event, nth, removes) ==
    IF i > Len(subs) THEN [received |-> rcv, subs |-> subs]
    ELSE LET callback == subs[i]
             called == [rcv EXCEPT ![callback] =
                           Append(@, [channel |-> event.channel,
                                      payload |-> event.payload, nth |-> nth])]
         IN  IF callback \in Coroutines
             THEN IF LoopAvailable
                  THEN DeliverLive(called, subs, i + 1, event, nth + 1, removes)
                  ELSE DeliverLive(rcv, subs, i + 1, event, nth, removes)
             ELSE DeliverLive(called,
                              IF removes[callback] = NoRemoval THEN subs
                              ELSE remove_callback(subs, removes[callback]),
                              i + 1, event, nth + 1, removes)

\* one market_trade frame of the engine's contract
RemovalFrames == {f \in InboundTrades : f.contract_id = OwnContract}

\* _on_market_trade (lines 1021-1029) with such handlers; frame_log holds
\* the frames dispatched
DispatchRemoving ==
    \E frame \in RemovalFrames, removes \in HandlerRemovals :
        LET r == DeliverLive(received, callbacks["market_trade"], 1,
                             [channel |-> "market_trade", payload |-> frame], 1,
                             removes)
        IN  /\ Len(frame_log) < MaxQuotes
            /\ received' = r.received
            /\ callbacks' = [callbacks EXCEPT !["market_trade"] = r.subs]
            /\ frame_log' = Append(frame_log, [channel |-> "market_trade", frame |-> frame])
            /\ UNCHANGED <<main_loop, callbacksRest>>

NextRemove == Register \/ DispatchRemoving

SpecRemove == InitCallbacks /\ [][NextRemove]_vars

\* the subscriber's callback can be invoked or scheduled
Deliverable(s) == s \notin Coroutines \/ LoopAvailable

\* C40: when handlers call remove_callback during a dispatch, every
\* subscriber registered on the channel when the dispatch began and not
\* removed receives the event exactly once.
C40_RemovalKeepsOthersServed ==
    [][Len(frame_log') > Len(frame_log) =>
          \A s \in RangeOf(callbacks["market_trade"])
                      \cap RangeOf(callbacks'["market_trade"]) :
              Deliverable(s) => OneMore(s)]_vars

\* what holds: no subscriber receives an event twice
RemovalNeverDuplicates ==
    [][Len(frame_log') > Len(frame_log) =>
          \A s \in Subscribers :
              \/ received'[s] = received[s]
              \/ OneMore(s)]_vars

====
